---------------------------- MODULE Spec2Model ----------------------------
(***************************************************************************)
(* A model of main_scraper.py: the venue registry (STADIUM_DB), the text   *)
(* helpers, and the reconciliation loop of run_sync against the calendar.  *)
(*                                                                         *)
(* Text is a sequence of characters.  A character is a one-letter string;  *)
(* a few multi-letter strings stand for one character (an icon, an         *)
(* accented letter, the no-break space) or for an unbreakable run of       *)
(* letters that holds no whitespace, no markup and no digit (a label).     *)
(***************************************************************************)
EXTENDS Integers, Sequences, FiniteSets, TLC

VARIABLES
    STADIUM_DB,     \* the in-memory registry: a sequence of entries, in dict insertion order
    DB_DIRTY,       \* the module-level dirty flag
    db_file,        \* stadiums.json: a registry, or NoFile, or BadFile
    updLog,         \* history: the update_db calls since the registry was last loaded
    calendar,       \* the calendar service's events, in creation order
    upstream,       \* what the two web sources currently publish: [elems, tv]
    now,            \* the wall clock, seconds since 1970-01-01T00:00:00Z
    outage,         \* what fails at present: the calendar API, the stadium scrape, the save
    edits,          \* history: how many times the environment has changed something
    cycles,         \* history: how many sync cycles have run since it last did
    lastRun,        \* history: the per-fixture outcomes of the last sync cycle
    lastCall,       \* history: the function called last on its own, with what it was given
    telegram_msgs   \* the notification lines of the last sync cycle

vars == <<STADIUM_DB, DB_DIRTY, db_file, updLog, calendar, upstream, now, outage, edits,
          cycles, lastRun, lastCall, telegram_msgs>>

----------------------------------------------------------------------------
(* Characters *)

None == <<"<None>">>          \* Python's None, where a text is expected
NBSP == "NBSP"                \* U+00A0, what html.unescape makes of &nbsp;
IsSpace(c) == c \in {" ", "\n", "\t", NBSP}     \* str.split() separators

Truthy(t) == t # None /\ t # <<>>

UpperCase == <<"A","B","C","D","E","F","G","H","I","J","K","L","M",
               "N","O","P","Q","R","S","T","U","V","W","X","Y","Z">>
LowerCase == <<"a","b","c","d","e","f","g","h","i","j","k","l","m",
               "n","o","p","q","r","s","t","u","v","w","x","y","z">>
DigitSeq == <<"0","1","2","3","4","5","6","7","8","9">>

\* str.lower() and str.upper(), one character at a time
ToLower == [c \in {UpperCase[i] : i \in 1..26} |-> LowerCase[CHOOSE i \in 1..26 : UpperCase[i] = c]]
ToUpper == [c \in {LowerCase[i] : i \in 1..26} |-> UpperCase[CHOOSE i \in 1..26 : LowerCase[i] = c]]
Lower(t) == [i \in 1..Len(t) |-> IF t[i] \in DOMAIN ToLower THEN ToLower[t[i]] ELSE t[i]]
Upper(t) == [i \in 1..Len(t) |-> IF t[i] \in DOMAIN ToUpper THEN ToUpper[t[i]] ELSE t[i]]

\* unicodedata.normalize('NFD', c).encode('ascii', 'ignore'): an accented
\* letter keeps its base letter, any other non-ASCII character is dropped
AccentBase == [c \in {"a'", "e'", "i'", "o'", "u'", "n~"} |->
                 CASE c = "a'" -> "a" [] c = "e'" -> "e" [] c = "i'" -> "i"
                   [] c = "o'" -> "o" [] c = "u'" -> "u" [] c = "n~" -> "n"]
AsciiChars == DOMAIN ToLower \cup DOMAIN ToUpper \cup {DigitSeq[i] : i \in 1..10}
                  \cup {" ", "\n", "\t", "'", "-", ".", ",", ":", "|", "(", ")", "/", "&", ";", "<", ">", "#", "+"}
AsciiFold(t) ==
    LET kept == SelectSeq(t, LAMBDA c : c \in DOMAIN AccentBase \/ c \in AsciiChars)
    IN  [i \in 1..Len(kept) |-> IF kept[i] \in DOMAIN AccentBase THEN AccentBase[kept[i]] ELSE kept[i]]

\* code-point order of the characters a normalized key can hold
CodeOrder == <<" ", "'", "-", ".", "0","1","2","3","4","5","6","7","8","9">> \o LowerCase

\* Python's str < str
RECURSIVE StrLess(_, _)
StrLess(a, b) ==
    LET Ord(c) == IF \E i \in 1..Len(CodeOrder) : CodeOrder[i] = c
                  THEN CHOOSE i \in 1..Len(CodeOrder) : CodeOrder[i] = c
                  ELSE 0
    IN  IF b = <<>> THEN FALSE
        ELSE IF a = <<>> THEN TRUE
        ELSE IF Head(a) = Head(b) THEN StrLess(Tail(a), Tail(b))
        ELSE Ord(Head(a)) < Ord(Head(b))

----------------------------------------------------------------------------
(* str methods *)

\* t[i:i+len(pat)] == pat
StartsWithAt(t, i, pat) ==
    /\ i + Len(pat) - 1 <= Len(t)
    /\ \A k \in 1..Len(pat) : t[i + k - 1] = pat[k]

\* pat in t
Contains(t, pat) == \E i \in 1..(Len(t) + 1) : StartsWithAt(t, i, pat)

\* t.replace(pat, rep), pat not empty: the leftmost occurrence, then the rest
RECURSIVE Replace(_, _, _)
Replace(t, pat, rep) ==
    IF ~Contains(t, pat) THEN t
    ELSE LET i == CHOOSE i \in 1..Len(t) :
                      StartsWithAt(t, i, pat) /\ \A j \in 1..(i - 1) : ~StartsWithAt(t, j, pat)
         IN  SubSeq(t, 1, i - 1) \o rep \o Replace(SubSeq(t, i + Len(pat), Len(t)), pat, rep)

\* " ".join(t.split()): the whitespace runs inside become one space, those at the ends go
JoinSplit(t) ==
    LET idx == SelectSeq([i \in 1..Len(t) |-> i], LAMBDA i :
                   \/ ~IsSpace(t[i])
                   \/ /\ i < Len(t) /\ ~IsSpace(t[i + 1])
                      /\ \E j \in 1..(i - 1) : ~IsSpace(t[j]))
    IN  [k \in 1..Len(idx) |-> IF IsSpace(t[idx[k]]) THEN " " ELSE t[idx[k]]]

----------------------------------------------------------------------------
(* normalize_team_key *)

remove_list == << <<" ","f","c">>, <<" ","c","f">>, <<" ","u","d">>, <<" ","c","d">>,
                  <<" ","s","d">>, <<"r","e","a","l"," ">>, <<"c","l","u","b"," ">>,
                  <<"d","e","p","o","r","t","i","v","o"," ">>,
                  <<"a","t","l","e","t","i","c","o"," ">> >>

\* for item in remove_list: text = text.replace(item, " "), from item k on
RECURSIVE RemoveItems(_, _)
RemoveItems(t, k) ==
    IF k > Len(remove_list) THEN t
    ELSE RemoveItems(Replace(t, remove_list[k], <<" ">>), k + 1)

normalize_team_key(name) ==
    IF ~Truthy(name) THEN <<>>
    ELSE JoinSplit(RemoveItems(Lower(AsciiFold(name)), 1))

----------------------------------------------------------------------------
(* difflib.SequenceMatcher(None, a, b).ratio() and get_close_matches *)

\* length of the common run of a from i and b from j, inside a[..ahi), b[..bhi)
RECURSIVE RunLen(_, _, _, _, _, _)
RunLen(a, i, ahi, b, j, bhi) ==
    IF i < ahi /\ j < bhi /\ a[i] = b[j] THEN 1 + RunLen(a, i + 1, ahi, b, j + 1, bhi) ELSE 0

\* find_longest_match: the longest block, the earliest in a, then the earliest in b
find_longest_match(a, alo, ahi, b, blo, bhi) ==
    LET K == [p \in (alo..(ahi - 1)) \X (blo..(bhi - 1)) |-> RunLen(a, p[1], ahi, b, p[2], bhi)]
        Longest(size) ==
            LET best == CHOOSE p \in DOMAIN K :
                            /\ K[p] = size
                            /\ \A q \in DOMAIN K :
                                  K[q] = size => (p[1] < q[1] \/ (p[1] = q[1] /\ p[2] <= q[2]))
            IN  <<best[1], best[2], size>>
        Pick(sizes) == IF sizes = {0} THEN <<alo, blo, 0>>
                       ELSE Longest(CHOOSE n \in sizes : \A k \in sizes : k <= n)
    IN  Pick({K[p] : p \in DOMAIN K})

\* the summed size of get_matching_blocks over a[alo..ahi), b[blo..bhi)
RECURSIVE MatchSize(_, _, _, _, _, _)
MatchSize(a, alo, ahi, b, blo, bhi) ==
    LET Around(m) == IF m[3] = 0 THEN 0
                     ELSE m[3] + MatchSize(a, alo, m[1], b, blo, m[2])
                               + MatchSize(a, m[1] + m[3], ahi, b, m[2] + m[3], bhi)
    IN  IF alo >= ahi \/ blo >= bhi THEN 0
        ELSE Around(find_longest_match(a, alo, ahi, b, blo, bhi))

\* ratio() = 2.0 * M / T as the pair <<2M, T>>; 1.0 when both are empty
Ratio(a, b) ==
    IF Len(a) + Len(b) = 0 THEN <<1, 1>>
    ELSE <<2 * MatchSize(a, 1, Len(a) + 1, b, 1, Len(b) + 1), Len(a) + Len(b)>>

CutoffNum == 85
CutoffDen == 100
\* a cutoff that lets every ratio above zero pass
AboveZero(r) == r[1] > 0

\* r >= 0.85
AtLeastCutoff(r) == r[1] * CutoffDen >= CutoffNum * r[2]

\* get_close_matches(word, possibilities, n=1, cutoff=0.85): the possibilities
\* scoring at least the cutoff, the best by (score, string); <<>> when none
get_close_matches(word, possibilities) ==
    LET score == [x \in possibilities |-> Ratio(x, word)]
        Less(r, s) == r[1] * s[2] < s[1] * r[2]
        Best(Good) == IF Good = {} THEN <<>>
                      ELSE << CHOOSE x \in Good : \A y \in Good :
                                  \/ y = x
                                  \/ Less(score[y], score[x])
                                  \/ ~Less(score[x], score[y]) /\ StrLess(y, x) >>
    IN  Best({x \in possibilities : AtLeastCutoff(score[x])})

----------------------------------------------------------------------------
(* The venue registry: STADIUM_DB, DB_DIRTY, stadiums.json *)

NoFile == "NoFile"      \* os.path.exists(DB_FILE) is false
BadFile == "BadFile"    \* the file exists and json.load raises

Entry(k, st, loc, al, upd) ==
    [key |-> k, stadium |-> st, location |-> loc, aliases |-> al, last_updated |-> upd]

Keys(db) == {db[i].key : i \in 1..Len(db)}
IndexOf(db, k) == CHOOSE i \in 1..Len(db) : db[i].key = k

\* date.strftime("%Y-%m-%d") of the wall clock: the day number stands for the date
SecondsPerDay == 86400
Today(t) == t \div SecondsPerDay

\* a load that falls back to a registry of its own when the file is missing or unreadable
load_stadium_db_with_default(file) ==
    IF file = NoFile \/ file = BadFile THEN <<Entry(<<"X">>, <<"Y">>, <<"Z">>, <<>>, 0)>> ELSE file

\* load_stadium_db: the registry the file holds, or empty when it is missing or unreadable
load_stadium_db(file) ==
    IF file = NoFile \/ file = BadFile THEN <<>> ELSE file

\* a save that writes whatever the dirty flag says
save_file_whatever_flag(db, dirty, file, save_ok) == IF save_ok THEN db ELSE file

\* save_stadium_db: the file afterwards, and the dirty flag afterwards
save_file(db, dirty, file, save_ok) == IF dirty /\ save_ok THEN db ELSE file
save_dirty(dirty, save_ok) == IF dirty /\ save_ok THEN FALSE ELSE dirty

\* norm_keys_map = {normalize_team_key(k): k for k in db_keys}: a later key
\* with the same normalized form replaces an earlier one
norm_keys_map(db, nk) ==
    db[CHOOSE i \in 1..Len(db) :
          /\ normalize_team_key(db[i].key) = nk
          /\ \A j \in (i + 1)..Len(db) : normalize_team_key(db[j].key) # nk].key

\* find_stadium_dynamic: <<stadium, location>>, or <<None, None>>
find_stadium_dynamic(db, team_name) ==
    LET Get(i) == <<db[i].stadium, db[i].location>>
        Listed(i) == \E a \in 1..Len(db[i].aliases) : db[i].aliases[a] = team_name
        Search(matches) ==
            IF matches # <<>> THEN Get(IndexOf(db, norm_keys_map(db, matches[1])))
            ELSE IF \E i \in 1..Len(db) : Listed(i)
            THEN Get(CHOOSE i \in 1..Len(db) : Listed(i) /\ \A j \in 1..(i - 1) : ~Listed(j))
            ELSE <<None, None>>
    IN  IF db = <<>> THEN <<None, None>>
        ELSE IF team_name \in Keys(db) THEN Get(IndexOf(db, team_name))
        ELSE Search(get_close_matches(normalize_team_key(team_name),
                                      {normalize_team_key(k) : k \in Keys(db)}))

invalid_terms == { <<"c","a","m","p","o"," ","m","u","n","i","c","i","p","a","l">>, <<"e","s","t","a","d","i","o"," ","l","o","c","a","l">>, <<"c","a","m","p","o"," ","d","e"," ","f","u","t","b","o","l">>, <<"m","u","n","i","c","i","p","a","l">> }
QualityLen == 15

\* a quality gate that also drops a stadium of exactly QualityLen characters
RejectedUpToQualityLen(stadium) ==
    /\ \E term \in invalid_terms : Contains(Lower(stadium), term)
    /\ Len(stadium) <= QualityLen

\* the quality gate of update_db: the write is dropped
Rejected(stadium) ==
    /\ \E term \in invalid_terms : Contains(Lower(stadium), term)
    /\ Len(stadium) < QualityLen

\* update_db: the registry afterwards (an existing key keeps its place in the dict)
update_db(db, team_name, stadium, location, today) ==
    IF Rejected(stadium) THEN db
    ELSE IF team_name \in Keys(db)
    THEN [db EXCEPT ![IndexOf(db, team_name)] = Entry(team_name, stadium, location, <<>>, today)]
    ELSE Append(db, Entry(team_name, stadium, location, <<>>, today))

\* update_db: the dirty flag afterwards
update_dirty(dirty, stadium) == IF Rejected(stadium) THEN dirty ELSE TRUE

----------------------------------------------------------------------------
(* normalize_text, clean_text *)

\* the character references html.unescape knows that the model's texts can
\* hold, each with the character it stands for; the longest match wins
Entities == << <<<<"&","a","m","p",";">>, <<"&">> >>,   <<<<"&","a","m","p">>, <<"&">> >>,
               <<<<"&","l","t",";">>, <<"<">> >>,    <<<<"&","l","t">>, <<"<">> >>,
               <<<<"&","g","t",";">>, <<">">> >>,    <<<<"&","g","t">>, <<">">> >>,
               <<<<"&","n","b","s","p",";">>, <<NBSP>> >>, <<<<"&","n","b","s","p">>, <<NBSP>> >>,
               <<<<"&","#","3","9",";">>, <<"'">> >> >>

\* html.unescape(t): one pass, left to right, from the first reference on
RECURSIVE html_unescape(_)
html_unescape(t) ==
    LET Known(i) == \E k \in 1..Len(Entities) : StartsWithAt(t, i, Entities[k][1])
        Longest(i) == CHOOSE k \in 1..Len(Entities) :
                          /\ StartsWithAt(t, i, Entities[k][1])
                          /\ \A l \in 1..Len(Entities) :
                                StartsWithAt(t, i, Entities[l][1])
                                    => Len(Entities[l][1]) <= Len(Entities[k][1])
        Refs == {i \in 1..Len(t) : t[i] = "&" /\ Known(i)}
        At(i, e) == SubSeq(t, 1, i - 1) \o e[2] \o html_unescape(SubSeq(t, i + Len(e[1]), Len(t)))
        First(i) == At(i, Entities[Longest(i)])
    IN  IF Refs = {} THEN t
        ELSE First(CHOOSE i \in Refs : \A j \in Refs : i <= j)

\* re.sub('<[^<]+?>', '', t): the leftmost tag goes, then those of the rest
RECURSIVE StripTags(_)
StripTags(t) ==
    LET Ends(i) == {j \in (i + 2)..Len(t) : t[j] = ">" /\ \A k \in (i + 1)..(j - 1) : t[k] # "<"}
        Tags == {i \in 1..Len(t) : t[i] = "<" /\ Ends(i) # {}}
        Cut(i, ends) == SubSeq(t, 1, i - 1)
                            \o StripTags(SubSeq(t, (CHOOSE j \in ends : \A k \in ends : j <= k) + 1, Len(t)))
        First(i) == Cut(i, Ends(i))
    IN  IF Tags = {} THEN t
        ELSE First(CHOOSE i \in Tags : \A j \in Tags : i <= j)

\* a normalization that leaves the tags in
normalize_text_keeping_tags(text) ==
    IF ~Truthy(text) THEN <<>>
    ELSE JoinSplit(Replace(Replace(Replace(html_unescape(text),
             <<"<","b","r",">">>, <<"\n">>), <<"<","b","r","/",">">>, <<"\n">>), <<"<","/","p",">">>, <<"\n">>))

\* normalize_text
normalize_text(text) ==
    IF ~Truthy(text) THEN <<>>
    ELSE JoinSplit(StripTags(
             Replace(Replace(Replace(html_unescape(text),
                 <<"<","b","r",">">>, <<"\n">>), <<"<","b","r","/",">">>, <<"\n">>), <<"<","/","p",">">>, <<"\n">>)))

clean_text(text) == IF ~Truthy(text) THEN <<>> ELSE JoinSplit(text)

----------------------------------------------------------------------------
(* Dates: datetime arithmetic on seconds since 1970-01-01T00:00:00Z *)

\* the proleptic Gregorian date of day number z, as datetime computes it
civil_from_days(z) ==
    LET Date(era, yoe, doy, mp) ==
            [year |-> yoe + era * 400 + (IF mp >= 10 THEN 1 ELSE 0),
             month |-> IF mp < 10 THEN mp + 3 ELSE mp - 9,
             day |-> doy - (153 * mp + 2) \div 5 + 1]
        OfDoy(era, yoe, doy) == Date(era, yoe, doy, (5 * doy + 2) \div 153)
        OfYoe(era, doe, yoe) == OfDoy(era, yoe, doe - (365 * yoe + yoe \div 4 - yoe \div 100))
        OfDoe(era, doe) ==
            OfYoe(era, doe, (doe - doe \div 1460 + doe \div 36524 - doe \div 146096) \div 365)
        OfEra(z1, era) == OfDoe(era, z1 - era * 146097)
    IN  OfEra(z + 719468, (z + 719468) \div 146097)

days_from_civil(y0, m, d) ==
    LET Days(y, doy) == (y \div 400) * 146097 + (y % 400) * 365 + (y % 400) \div 4
                            - (y % 400) \div 100 + doy - 719468
    IN  Days(IF m <= 2 THEN y0 - 1 ELSE y0,
             (153 * (IF m > 2 THEN m - 3 ELSE m + 9) + 2) \div 5 + d - 1)

DateOf(t) == civil_from_days(t \div SecondsPerDay)

\* datetime.weekday() of day number z: Monday is 0
Weekday(z) == (z + 3) % 7

\* TZ = Europe/Madrid: UTC+2 from the last Sunday of March, 01:00 UTC, until
\* the last Sunday of October, 01:00 UTC; UTC+1 otherwise
LocalOffset(t) ==
    LET LastSunday(z) == z - ((Weekday(z) + 1) % 7)
        Change(y, m) == LastSunday(days_from_civil(y, m, 31)) * SecondsPerDay + 3600
        In(y) == IF t >= Change(y, 3) /\ t < Change(y, 10) THEN 7200 ELSE 3600
    IN  In(DateOf(t).year)

\* astimezone(): the wall-clock seconds in the local zone
LocalTime(t) == t + LocalOffset(t)

\* the decimal text of n, at least w digits wide
RECURSIVE NumText(_, _)
NumText(n, w) ==
    IF n < 10 /\ w <= 1 THEN <<DigitSeq[n + 1]>>
    ELSE NumText(n \div 10, w - 1) \o <<DigitSeq[(n % 10) + 1]>>

\* strftime("%Y-%m-%d")
DateKey(t) ==
    LET Of(c) == NumText(c.year, 4) \o <<"-">> \o NumText(c.month, 2) \o <<"-">> \o NumText(c.day, 2)
    IN  Of(DateOf(t))

\* an ISO-8601 timestamp: wall-clock seconds and the UTC offset written after it
Iso(wall, off) == [wall |-> wall, off |-> off, valid |-> TRUE]
\* a missing attribute, or a text fromisoformat rejects
BadIso == [wall |-> 0, off |-> 0, valid |-> FALSE]
\* datetime.isoformat() of an aware UTC datetime
isoformat(t) == Iso(t, 0)
\* parse_besoccer_date, parse_google_iso: fromisoformat(..).astimezone(utc);
\* None when the text is missing or does not parse
NoTime == -1
parse_besoccer_date(iso) == IF ~iso.valid THEN NoTime ELSE iso.wall - iso.off
parse_google_iso(iso) == IF ~iso.valid THEN NoTime ELSE iso.wall - iso.off

----------------------------------------------------------------------------
(* More str methods *)

\* t.strip()
Strip(t) ==
    LET Kept(ink) == IF ink = {} THEN <<>>
                     ELSE SubSeq(t, CHOOSE i \in ink : \A j \in ink : i <= j,
                                    CHOOSE i \in ink : \A j \in ink : j <= i)
    IN  Kept({i \in 1..Len(t) : ~IsSpace(t[i])})

\* t.split(): the words of t
RECURSIVE Words(_)
Words(t) ==
    LET Ends(i) == {j \in i..Len(t) : j = Len(t) \/ IsSpace(t[j + 1])}
        To(i, j) == <<SubSeq(t, i, j)>> \o Words(SubSeq(t, j + 1, Len(t)))
        From(i) == To(i, CHOOSE j \in Ends(i) : \A k \in Ends(i) : j <= k)
        Pick(ink) == IF ink = {} THEN <<>> ELSE From(CHOOSE i \in ink : \A j \in ink : i <= j)
    IN  Pick({i \in 1..Len(t) : ~IsSpace(t[i])})

\* t.isdigit()
IsDigitText(t) == t # <<>> /\ \A i \in 1..Len(t) : \E k \in 1..10 : DigitSeq[k] = t[i]

\* t.split(sep)[-1] and t.split(sep)[0], sep one character
LastPart(t, sep) ==
    IF \E i \in 1..Len(t) : t[i] = sep
    THEN SubSeq(t, (CHOOSE i \in 1..Len(t) : t[i] = sep /\ \A j \in (i + 1)..Len(t) : t[j] # sep) + 1, Len(t))
    ELSE t
FirstPart(t, sep) ==
    IF \E i \in 1..Len(t) : t[i] = sep
    THEN SubSeq(t, 1, (CHOOSE i \in 1..Len(t) : t[i] = sep /\ \A j \in 1..(i - 1) : t[j] # sep) - 1)
    ELSE t

\* int(t) of a digit text
RECURSIVE TextToInt(_)
TextToInt(t) ==
    IF t = <<>> THEN 0
    ELSE 10 * TextToInt(SubSeq(t, 1, Len(t) - 1))
         + ((CHOOSE k \in 1..10 : DigitSeq[k] = t[Len(t)]) - 1)

\* t[:n]
Prefix(t, n) == SubSeq(t, 1, IF Len(t) < n THEN Len(t) ELSE n)

----------------------------------------------------------------------------
(* get_competition_details, get_round_details, get_euro_max_rounds *)

Comp(name, icon, color) == [name |-> name, icon |-> icon, color |-> color]

get_competition_details(comp_text) ==
    LET text == Lower(comp_text)
        Has(k) == Contains(text, k)
    IN  IF Has(<<"p","r","o","m","o","c","i","o'","n">>) THEN Comp(<<"P","r","o","m","o","c","i","o'","n"," ","d","e"," ","a","s","c","e","n","s","o"," ","a"," ","P","r","i","m","e","r","a">>, "ICON_TROPHY", <<"3">>)
        ELSE IF Has(<<"c","h","a","m","p","i","o","n","s">>) THEN Comp(<<"C","h","a","m","p","i","o","n","s"," ","L","e","a","g","u","e">>, "ICON_SPARKLES", <<"5">>)
        ELSE IF Has(<<"i","n","t","e","r","t","o","t","o">>) THEN Comp(<<"C","o","p","a"," ","I","n","t","e","r","t","o","t","o">>, "ICON_TROPHY", <<"3">>)
        ELSE IF Has(<<"s","e","g","u","n","d","a"," ","d","i","v","i","s","i","o'","n"," ","b">>) THEN Comp(<<"S","e","g","u","n","d","a"," ","D","i","v","i","s","i","o'","n"," ","B">>, "ICON_B", <<"7">>)
        ELSE IF Has(<<"s","e","g","u","n","d","a"," ","d","i","v","i","s","i","o'","n">>) THEN Comp(<<"S","e","g","u","n","d","a"," ","D","i","v","i","s","i","o'","n">>, "ICON_TWO", <<"7">>)
        ELSE IF Has(<<"l","i","g","a">>) \/ Has(<<"p","r","i","m","e","r","a">>) THEN Comp(<<"P","r","i","m","e","r","a"," ","D","i","v","i","s","i","o'","n">>, "ICON_BALL", <<"7">>)
        ELSE IF Has(<<"c","o","p","a">>) \/ Has(<<"r","e","y">>) THEN Comp(<<"C","o","p","a"," ","d","e","l"," ","R","e","y">>, "ICON_TROPHY", <<"3">>)
        ELSE IF Has(<<"e","u","r","o","p","a">>) \/ Has(<<"u","e","f","a">>) THEN Comp(<<"E","u","r","o","p","a"," ","L","e","a","g","u","e">>, "ICON_GLOBE", <<"6">>)
        ELSE Comp(<<"A","m","i","s","t","o","s","o">>, "ICON_HANDSHAKE", <<"8">>)

get_round_details(comp_raw) ==
    LET Tag(text, words) ==
            IF Contains(text, <<"j","o","r","n","a","d","a">>) /\ SelectSeq(words, IsDigitText) # <<>>
            THEN <<"J">> \o SelectSeq(words, IsDigitText)[1]
            ELSE IF Contains(text, <<"s","e","m","i">>) \/ Contains(text, <<"1","/","2">>) THEN <<"S","e","m","i","s">>
            ELSE IF Contains(text, <<"c","u","a","r","t","o","s">>) \/ Contains(text, <<"1","/","4">>) THEN <<"C","u","a","r","t","o","s">>
            ELSE IF Contains(text, <<"o","c","t","a","v","o","s">>) \/ Contains(text, <<"1","/","8">>) THEN <<"O","c","t","a","v","o","s">>
            ELSE IF Contains(text, <<"/">>)
            THEN <<"R","o","n","d","a"," ">> \o SelectSeq(words, LAMBDA w : Contains(w, <<"/">>))[1]
            ELSE IF Contains(text, <<"f","i","n","a","l">>) THEN <<"F","i","n","a","l">>
            ELSE <<>>
        Of(raw_detail) == Tag(Lower(raw_detail), Words(raw_detail))
    IN  IF ~Truthy(comp_raw) \/ Contains(Lower(comp_raw), <<"a","m","i","s","t","o","s","o">>) THEN <<>>
        ELSE IF ~Contains(comp_raw, <<".">>) THEN <<>>
        ELSE Of(Strip(LastPart(comp_raw, ".")))

\* 0 stands for the None get_euro_max_rounds returns
get_euro_max_rounds(comp_name, season_str) ==
    LET Rounds(name, first) ==
            IF ~(\/ Contains(name, <<"c","h","a","m","p","i","o","n","s">>)
                 \/ Contains(name, <<"e","u","r","o","p","a"," ","l","e","a","g","u","e">>)
                 \/ Contains(name, <<"c","o","n","f","e","r","e","n","c","e">>)) THEN 0
            ELSE IF (IF IsDigitText(first) THEN TextToInt(first) ELSE 0) < 2024 THEN 6
            ELSE IF Contains(name, <<"c","o","n","f","e","r","e","n","c","e">>) THEN 6
            ELSE 8
    IN  Rounds(Lower(comp_name), FirstPart(season_str, "-"))

----------------------------------------------------------------------------
(* fetch_matches: the match records made of the page's match elements *)

TEAM_NAME == <<"c","e","l","t","a">>

\* is_tbd as fetch_matches sets it from the hastime attribute and the local time
IsTbd(hastime, start_utc) ==
    LET Midnight(local) == (local % SecondsPerDay) \div 3600 = 0 /\ (local % 3600) \div 60 = 0
    IN  hastime = <<"1">> \/ Midnight(LocalTime(start_utc))

\* an id that keeps the capitals and the spaces
match_id_as_written(c, local, visitante) ==
    NumText(c.year, 4) \o NumText(c.month, 2) \o NumText(c.day, 2)
        \o <<"_">> \o Prefix(local, 3) \o <<"_">> \o Prefix(visitante, 3)

\* mid, from the date c of start_utc and the two names
match_id(c, local, visitante) ==
    Replace(Lower(NumText(c.year, 4) \o NumText(c.month, 2) \o NumText(c.day, 2)
                  \o <<"_">> \o Prefix(local, 3) \o <<"_">> \o Prefix(visitante, 3)),
            <<" ">>, <<>>)

\* the record fetch_matches appends for element m; page is not a field of the
\* program's record: it is the stadium text of the page behind link
MatchOf(m) ==
    LET Season(y) == NumText(y, 4) \o <<"-">> \o NumText(y + 1, 4)
        Score(t1, t2) == IF IsDigitText(t1) /\ IsDigitText(t2) THEN t1 \o <<"-">> \o t2 ELSE None
        Record(start_utc, c, local, visitante) ==
            [id |-> match_id(c, local, visitante),
             local |-> local,
             visitante |-> visitante,
             competicion |-> IF m.comp = None THEN <<"A","m","i","s","t","o","s","o">> ELSE clean_text(m.comp),
             inicio |-> start_utc,
             is_tbd |-> IsTbd(IF m.hastime = None THEN <<"1">> ELSE m.hastime, start_utc),
             lugar |-> IF Contains(Lower(local), TEAM_NAME)
                       THEN <<"E","s","t","a","d","i","o"," ","L","o","c","a","l"," ","(">> \o local \o <<")">>
                       ELSE <<"E","s","t","a","d","i","o"," ","V","i","s","i","t","a","n","t","e"," ","(">> \o local \o <<")">>,
             score |-> IF Truthy(m.r1) /\ Truthy(m.r2) THEN Score(clean_text(m.r1), clean_text(m.r2)) ELSE None,
             status |-> IF m.status = None THEN <<>> ELSE Lower(Strip(m.status)),
             link |-> m.href,
             page |-> m.page,
             season |-> Season(IF c.month >= 7 THEN c.year ELSE c.year - 1)]
        At(start_utc) == Record(start_utc, DateOf(start_utc), clean_text(m.local), clean_text(m.visitante))
    IN  At(parse_besoccer_date(m.starttime))

\* a loop that ends at the first element it cannot read
RECURSIVE fetch_matches_until_malformed(_)
fetch_matches_until_malformed(elems) ==
    IF elems = <<>> THEN <<>>
    ELSE IF /\ parse_besoccer_date(Head(elems).starttime) # NoTime
            /\ Head(elems).local # None
            /\ Head(elems).visitante # None
    THEN <<MatchOf(Head(elems))>> \o fetch_matches_until_malformed(Tail(elems))
    ELSE <<>>

\* the loop of fetch_matches: an element is kept when its start time parses
\* and it has both team names
RECURSIVE fetch_matches(_)
fetch_matches(elems) ==
    IF elems = <<>> THEN <<>>
    ELSE IF /\ parse_besoccer_date(Head(elems).starttime) # NoTime
            /\ Head(elems).local # None
            /\ Head(elems).visitante # None
    THEN <<MatchOf(Head(elems))>> \o fetch_matches(Tail(elems))
    ELSE fetch_matches(Tail(elems))

----------------------------------------------------------------------------
(* parse_tv_channels and the TV guide of fetch_tv_summary_from_url *)

excluded_terms == { <<"H","e","l","l","o","t","i","c","k","e","t","s">>, <<"L","a","L","i","g","a"," ","T","V"," ","B","a","r">>, <<"E","n","t","r","a","d","a">> }
free_keywords == { <<"L","a"," ","1">>, <<"T","V","E">>, <<"T","e","l","e","d","e","p","o","r","t","e">>, <<"T","V","G">>, <<"G","a","l","i","c","i","a">>,
                   <<"G","o","l">>, <<"C","u","a","t","r","o">>, <<"T","e","l","e","c","i","n","c","o">> }
dazn_keywords == { <<"D","A","Z","N">> }
movistar_keywords == { <<"M","+">>, <<"M","o","v","i","s","t","a","r">> }

\* any(k.upper() in upper_ch for k in keywords)
HasKeyword(upper_ch, keywords) == \E k \in keywords : Contains(upper_ch, Upper(k))

\* the first loop of parse_tv_channels: the cleaned names of the items kept
RECURSIVE KeptChannels(_)
KeptChannels(items) ==
    LET Keep(raw_text) ==
            IF (\E x \in excluded_terms : Contains(raw_text, x))
               \/ Contains(Lower(raw_text), <<"c","o","n","f","i","r","m","a","r">>)
            THEN <<>>
            ELSE IF Contains(raw_text, <<"(">>) THEN <<clean_text(Strip(FirstPart(raw_text, "(")))>>
            ELSE <<clean_text(raw_text)>>
    IN  IF items = <<>> THEN <<>>
        ELSE Keep(Strip(Head(items))) \o KeptChannels(Tail(items))

\* the bucket a channel goes to: 1 free, 2 DAZN, 3 Movistar, 4 the others
Bucket(ch) ==
    LET Of(upper_ch) == IF HasKeyword(upper_ch, free_keywords) THEN 1
                        ELSE IF HasKeyword(upper_ch, dazn_keywords) THEN 2
                        ELSE IF HasKeyword(upper_ch, movistar_keywords) THEN 3
                        ELSE 4
    IN  Of(Upper(ch))

\* a final list that keeps the order of the input
final_list_unsorted(channels) == channels

\* final_list = bucket_free + bucket_dazn + bucket_movistar + bucket_others
final_list(channels) ==
    LET bucket == [i \in 1..Len(channels) |-> Bucket(channels[i])]
        idx == [i \in 1..Len(channels) |-> i]
        In(b) == SelectSeq(idx, LAMBDA i : bucket[i] = b)
        order == In(1) \o In(2) \o In(3) \o In(4)
    IN  [k \in 1..Len(channels) |-> channels[order[k]]]

\* ", ".join(list)
RECURSIVE JoinComma(_)
JoinComma(list) ==
    IF list = <<>> THEN <<>>
    ELSE IF Len(list) = 1 THEN list[1]
    ELSE list[1] \o <<",", " ">> \o JoinComma(Tail(list))

\* a short code that is the generic label whatever the channel
short_code_generic(top_channel) == <<"T","V">>

short_code(top_channel) ==
    IF HasKeyword(top_channel, free_keywords)
    THEN IF Contains(top_channel, <<"T","V","G">>) \/ Contains(top_channel, <<"G","A","L","I","C","I","A">>) THEN <<"T","V","G">>
         ELSE IF Contains(top_channel, <<"T","E","L","E","D","E","P","O","R","T","E">>) THEN <<"t","d","p">>
         ELSE IF Contains(top_channel, <<"L","A"," ","1">>) \/ Contains(top_channel, <<"T","V","E">>) THEN <<"L","a","1">>
         ELSE IF Contains(top_channel, <<"R","T","V","E">>) THEN <<"R","T","V","E","P","l","a","y">>
         ELSE <<"A","b","i","e","r","t","o">>
    ELSE IF Contains(top_channel, <<"D","A","Z","N">>) THEN <<"D","A","Z","N">>
    ELSE IF Contains(top_channel, <<"M","+">>) \/ Contains(top_channel, <<"M","O","V","I","S","T","A","R">>) THEN <<"M","+">>
    ELSE <<"T","V">>

NoUl == "NoUl"      \* the row has no <ul class="listaCanales">

\* parse_tv_channels: <<short_code, full_string>>, or <<None, None>>
parse_tv_channels(ul) ==
    LET Of(sorted) == IF sorted = <<>> THEN <<None, None>>
                      ELSE <<short_code(Upper(sorted[1])), JoinComma(sorted)>>
    IN  IF ul = NoUl THEN <<None, None>>
        ELSE Of(final_list(KeptChannels(ul)))

\* the entry fetch_tv_summary_from_url stores for a row
TvEntry(ul) ==
    LET Of(r) == IF Truthy(r[1]) /\ Truthy(r[2]) THEN [short |-> r[1], full |-> r[2]]
                 ELSE [short |-> None, full |-> <<"C","a","n","a","l"," ","s","i","n"," ","c","o","n","f","i","r","m","a","r">>]
    IN  Of(parse_tv_channels(ul))

\* tv_data.get(key): <<the entry of the last row dated key>>, or << >> for None
TvGet(rows, key) ==
    IF \E i \in 1..Len(rows) : rows[i].date = key
    THEN <<TvEntry(rows[CHOOSE i \in 1..Len(rows) :
                        rows[i].date = key /\ \A j \in (i + 1)..Len(rows) : rows[j].date # key].items)>>
    ELSE <<>>

----------------------------------------------------------------------------
(* run_sync: what is computed for one match *)

\* get_stadium_info with a link: page is the stadium text scrape_besoccer_info
\* reads from the page behind the link (None when the page names no stadium)
get_stadium_info(db, team_name, match_link, page) ==
    LET Decide(clean_name, found) ==
            IF /\ Truthy(match_link)
               /\ Truthy(page)
               /\ \/ ~Truthy(found[1])
                  \/ ~AtLeastCutoff(Ratio(normalize_team_key(found[1]), normalize_team_key(page)))
            THEN <<page, page \o <<",", " ">> \o clean_name>>
            ELSE found
        Of(clean_name) == Decide(clean_name, find_stadium_dynamic(db, clean_name))
    IN  IF ~Truthy(team_name) THEN <<None, None>> ELSE Of(Strip(team_name))

ScanAttempts == 3

\* a scan rule that forgets that a match was scanned already
ShouldScanEvery(m, now_utc, next_match_processed) ==
    m.inicio > now_utc /\ ~m.is_tbd

\* should_scan_stadium
ShouldScan(m, now_utc, next_match_processed) ==
    m.inicio > now_utc /\ ~next_match_processed /\ ~m.is_tbd

\* the stadium block of the loop body.  fails is the number of scrape attempts
\* that raise before one returns (ScanAttempts: every attempt raises); a
\* match without a link is not scraped at all, so nothing can raise.
\* attempts is the number of get_stadium_info calls made
StadiumStep(db, dirty, m, now_utc, next_match_processed, fails, today) ==
    LET Scanned(r) ==
            [stadium_name |-> r[1], full_address |-> r[2], lugar |-> m.lugar,
             db |-> IF Truthy(r[1]) THEN update_db(db, m.local, r[1], r[1] \o <<",", " ">> \o m.local, today)
                    ELSE db,
             dirty |-> IF Truthy(r[1]) THEN update_dirty(dirty, r[1]) ELSE dirty,
             scanned |-> TRUE,
             attempts |-> IF Truthy(m.link) THEN fails + 1 ELSE 1,
             updated |-> Truthy(r[1])]
        Fallback(r) ==
            [stadium_name |-> r[1], full_address |-> r[2], lugar |-> m.lugar,
             db |-> db, dirty |-> dirty, scanned |-> TRUE, attempts |-> ScanAttempts, updated |-> FALSE]
        Passive(r) ==
            [stadium_name |-> r[1], full_address |-> r[2],
             lugar |-> IF Truthy(r[2]) /\ (Contains(m.lugar, <<"E","s","t","a","d","i","o"," ","L","o","c","a","l">>)
                                           \/ Contains(m.lugar, <<"E","s","t","a","d","i","o"," ","V","i","s","i","t","a","n","t","e">>))
                       THEN r[2] ELSE m.lugar,
             db |-> db, dirty |-> dirty, scanned |-> FALSE, attempts |-> 0, updated |-> FALSE]
    IN  IF ~ShouldScan(m, now_utc, next_match_processed) THEN Passive(find_stadium_dynamic(db, m.local))
        ELSE IF fails < ScanAttempts \/ ~Truthy(m.link)
        THEN Scanned(get_stadium_info(db, m.local, m.link, m.page))
        ELSE Fallback(find_stadium_dynamic(db, m.local))

IsFinished(m) == Contains(Lower(m.status), <<"f","i","n">>)

CurrentSeason == <<"2","0","2","5","-","2","0","2","6">>

\* comp_name as shown: Pretemporada for summer friendlies, Liga this season
CompName(m, name) ==
    LET Liga(n1) == IF m.season = CurrentSeason /\ n1 = <<"P","r","i","m","e","r","a"," ","D","i","v","i","s","i","o'","n">>
                    THEN <<"L","i","g","a">> ELSE n1
    IN  Liga(IF Contains(Lower(name), <<"a","m","i","s","t","o","s","o">>) /\ DateOf(m.inicio).month \in {7, 8}
             THEN <<"P","r","e","t","e","m","p","o","r","a","d","a">> ELSE name)

\* a display rule that never marks a match as unconfirmed
DisplayTbdNever(m) == FALSE

\* display_tbd
DisplayTbd(m) == m.is_tbd /\ m.season = CurrentSeason

IsFriendly(comp_name) ==
    LET Has(name) == Contains(name, <<"a","m","i","s","t","o","s","o">>) \/ Contains(name, <<"p","r","e","t","e","m","p","o","r","a","d","a">>)
    IN  Has(Lower(comp_name))

\* <<tv_data_entry>>, or << >>: no TV for a TBD or finished match
TvOf(m, tv_rows) ==
    IF ~m.is_tbd /\ ~IsFinished(m) THEN TvGet(tv_rows, DateKey(m.inicio)) ELSE <<>>

\* full_title
FullTitle(m, icon, comp_name, round_tag, tv) ==
    (IF DisplayTbd(m) THEN <<"(","T","B","C",")"," ">> ELSE <<>>)
    \o (IF Truthy(m.score) /\ IsFinished(m)
        THEN m.local \o <<" ">> \o m.score \o <<" ">> \o m.visitante
        ELSE m.local \o <<" ","v","s"," ">> \o m.visitante)
    \o <<" ", "|", icon>> \o comp_name
    \o (IF Truthy(round_tag) /\ ~IsFriendly(comp_name) THEN <<" ", "|", " ">> \o round_tag ELSE <<>>)
    \o (IF tv # <<>> /\ Truthy(tv[1].short) /\ ~IsFinished(m) THEN <<" ", "|", " ">> \o tv[1].short ELSE <<>>)

\* round_str
RoundStr(round_tag, comp_name, season) ==
    LET Of(total_rounds) == IF total_rounds # 0 THEN <<" ","d","e"," ">> \o NumText(total_rounds, 1) ELSE <<>>
    IN  IF round_tag # <<>> /\ Head(round_tag) = "J" /\ IsDigitText(Tail(round_tag))
        THEN <<"J","o","r","n","a","d","a"," ">> \o Tail(round_tag) \o Of(get_euro_max_rounds(comp_name, season))
        ELSE round_tag

\* desc_text
DescText(m, icon, comp_name, round_str, tv, stadium_name, lugar) ==
    (IF DisplayTbd(m) THEN <<"ICON_WARN", " ", "Fecha", " ", "y", " ", "hora", " ", "por", " ", "confirmar", " ", "(", "T", "B", "C", ")", "\n">> ELSE <<>>)
    \o <<icon, " ">> \o comp_name \o <<"\n">>
    \o <<"ICON_CALENDAR", " ", "Temporada", " ">> \o m.season \o <<"\n">>
    \o (IF Truthy(round_str) THEN <<"ICON_PLAY", " ">> \o round_str \o <<"\n">> ELSE <<>>)
    \o (IF tv # <<>> /\ Truthy(tv[1].full) /\ ~IsFinished(m)
        THEN <<"ICON_TV", " ", "Donde", " ", "ver", ":", " ">> \o tv[1].full \o <<"\n">> ELSE <<>>)
    \o (IF Truthy(stadium_name) THEN <<"ICON_STADIUM", " ", "Estadio", ":", " ">> \o stadium_name \o <<"\n">>
        ELSE <<"ICON_PIN", " ">> \o lugar \o <<"\n">>)
    \o <<"ICON_LINK", " ", "Mas", " ", "Info", ":", " ">> \o (IF m.link = None THEN <<"N","o","n","e">> ELSE m.link)

\* custom_reminders, sorted by minutes
Reminders(comp_name) ==
    LET popup(minutes) == [method |-> "popup", minutes |-> minutes]
    IN  IF IsFriendly(comp_name) THEN <<popup(60)>>
        ELSE <<popup(60), popup(180), popup(1440), popup(4320)>>

EventDuration == 7200

\* a location that is whatever the lookup gave
loc_final_as_found(full_address, lugar) == full_address

\* loc_final
loc_final(full_address, lugar) == IF Truthy(full_address) THEN full_address ELSE lugar

\* event_body
EventBody(m, tv_rows, stadium_name, full_address, lugar) ==
    LET Body(c, comp_name, round_tag, tv) ==
            [summary |-> FullTitle(m, c.icon, comp_name, round_tag, tv),
             location |-> loc_final(full_address, lugar),
             description |-> DescText(m, c.icon, comp_name, RoundStr(round_tag, comp_name, m.season),
                                      tv, stadium_name, lugar),
             start |-> isoformat(m.inicio),
             end |-> isoformat(m.inicio + EventDuration),
             colorId |-> c.color,
             match_id |-> m.id,
             reminders |-> Reminders(comp_name)]
        Of(c) == Body(c, CompName(m, c.name), get_round_details(m.competicion), TvOf(m, tv_rows))
    IN  Of(get_competition_details(m.competicion))

\* format_log_date: the day, date and hour of the notification line
format_log_date(t, is_tbd) ==
    LET Line(local, c) ==
            [dia |-> Weekday(local \div SecondsPerDay), fecha |-> <<c.day, c.month>>,
             hora |-> IF is_tbd THEN <<>>     \* TBC
                      ELSE <<(local % SecondsPerDay) \div 3600, (local % 3600) \div 60>>]
        Of(local) == Line(local, DateOf(local))
    IN  Of(LocalTime(t))

----------------------------------------------------------------------------
(* run_sync: the loop over the matches *)

\* existing_events.get(mid): <<the last listed event carrying match_id mid>>, or << >>
ExistingEvent(cal, mid) ==
    IF \E i \in 1..Len(cal) : cal[i].match_id = mid
    THEN <<cal[CHOOSE i \in 1..Len(cal) :
                  cal[i].match_id = mid /\ \A j \in (i + 1)..Len(cal) : cal[j].match_id # mid]>>
    ELSE <<>>

\* the event the service stores for a body; written_tbd is history: the
\* is_tbd of the match the body was rendered from
Stored(body, id, is_tbd) ==
    [id |-> id, summary |-> body.summary, location |-> body.location,
     description |-> body.description, start |-> body.start, end |-> body.end,
     colorId |-> body.colorId, match_id |-> body.match_id, reminders |-> body.reminders,
     written_tbd |-> is_tbd]

\* a filter that does not look at the status: it drops finished matches too
FilteredWhateverStatus(m, now_utc, cal0) ==
    m.inicio < now_utc /\ ExistingEvent(cal0, m.id) = <<>>

\* the match is skipped before anything is computed for it
Filtered(m, now_utc, cal0) ==
    m.inicio < now_utc /\ ~IsFinished(m) /\ ExistingEvent(cal0, m.id) = <<>>

\* a loop without the consolidated-result skip
FrozenNever(m, ev) == FALSE

\* the consolidated-result skip
Frozen(m, ev) ==
    IsFinished(m) /\ Truthy(m.score) /\ Contains(clean_text(ev.summary), m.score)

TimeTolerance == 60

\* a time check that already fires at the tolerance itself
time_changed_from_tolerance(ev, m) ==
    LET Moved(old_dt) == old_dt # NoTime /\ (old_dt - m.inicio >= TimeTolerance \/ m.inicio - old_dt >= TimeTolerance)
    IN  Moved(parse_google_iso(ev.start))

time_changed(ev, m) ==
    LET Moved(old_dt) == old_dt # NoTime /\ (old_dt - m.inicio > TimeTolerance \/ m.inicio - old_dt > TimeTolerance)
    IN  Moved(parse_google_iso(ev.start))

title_changed(ev, body) == normalize_text(ev.summary) # normalize_text(body.summary)
desc_changed(ev, body) == normalize_text(ev.description) # normalize_text(body.description)
loc_changed(ev, body) == normalize_text(ev.location) # normalize_text(body.location)
\* a comparison of the overrides that looks at the minute values alone
reminders_changed_by_values(ev, body) ==
    {ev.reminders[i].minutes : i \in 1..Len(ev.reminders)}
        # {body.reminders[i].minutes : i \in 1..Len(body.reminders)}

reminders_changed(ev, body) == ev.reminders # body.reminders

\* comparisons in which every difference counts as critical
ChangesAllCritical(ev, m, body) ==
    LET Other(critical) ==
            <<critical \/ desc_changed(ev, body) \/ loc_changed(ev, body) \/ reminders_changed(ev, body),
              critical \/ desc_changed(ev, body) \/ loc_changed(ev, body) \/ reminders_changed(ev, body)>>
    IN  Other(time_changed(ev, m) \/ title_changed(ev, body))

\* <<needs_update, notify_telegram>> at the end of the comparisons
Changes(ev, m, body) ==
    LET Other(critical) ==
            <<critical \/ desc_changed(ev, body) \/ loc_changed(ev, body) \/ reminders_changed(ev, body),
              critical>>
    IN  Other(time_changed(ev, m) \/ title_changed(ev, body))

\* what the loop body decides for match m, the stadium block done:
\* <<the outcome, notify_telegram>>
Outcome(m, ex, body) ==
    LET Of(ch) == IF ch[1] THEN <<"update", ch[2]>> ELSE <<"skip", FALSE>>
    IN  IF ex = <<>> THEN <<"insert", TRUE>>
        ELSE IF Frozen(m, ex[1]) THEN <<"frozen", FALSE>>
        ELSE Of(Changes(ex[1], m, body))

\* a line queued for Telegram
Message(kind, m, body) ==
    [kind |-> kind, title |-> body.summary,
     suffix |-> format_log_date(m.inicio, DisplayTbd(m))]

RetryAttempts == 5

\* a retry loop that goes on after any error
RECURSIVE execute_with_retry_any_error(_, _)
execute_with_retry_any_error(request, n) ==
    IF n >= RetryAttempts THEN [result |-> "none", executed |-> n]
    ELSE IF request[n + 1] = "ok" THEN [result |-> "ok", executed |-> n + 1]
    ELSE execute_with_retry_any_error(request, n + 1)

\* execute_with_retry(request) from attempt n on, n attempts made: request is
\* what the service answers to the successive request.execute() calls ("ok",
\* "ratelimit" for an error whose text holds rateLimitExceeded or 403, "error"
\* for any other); the result is what comes back ("ok" the response, "none"
\* None, "raised" the error) and how often the request was executed
RECURSIVE execute_with_retry(_, _)
execute_with_retry(request, n) ==
    IF n >= RetryAttempts THEN [result |-> "none", executed |-> n]
    ELSE IF request[n + 1] = "ok" THEN [result |-> "ok", executed |-> n + 1]
    ELSE IF request[n + 1] = "ratelimit" THEN execute_with_retry(request, n + 1)
    ELSE [result |-> "raised", executed |-> n + 1]

\* execute_with_retry under api: "ok" the request is carried out, "ratelimit"
\* every attempt is refused and None comes back, "error" the request raises

\* one turn of the loop.  acc: the registry, the dirty flag, the calendar, the
\* queued lines, next_match_processed, whether an exception ended the loop, and
\* the log: per match the decision (outcome, notify), what it was taken from
\* (the match, the clock, the existing event, the rendered body) and what
\* became of the request
ProcessMatch(acc, m, cal0, tv_rows, now_utc, fails, api) ==
    LET Entry0(outcome, notify, ex, body, result, st) ==
            [outcome |-> outcome, notify |-> notify, ev |-> ex, body |-> body,
             match |-> m, now |-> now_utc, result |-> result,
             scanned |-> st.scanned, updated |-> st.updated,
             attempts |-> st.attempts, fails |-> fails, db0 |-> acc.db, db |-> st.db]
        Commit(st, body, ex, outcome, notify) ==
            [db |-> st.db,
             dirty |-> st.dirty,
             cal |-> IF outcome \notin {"insert", "update"} \/ api # "ok" THEN acc.cal
                     ELSE IF outcome = "insert" THEN Append(acc.cal, Stored(body, Len(acc.cal) + 1, m.is_tbd))
                     ELSE [acc.cal EXCEPT ![ex[1].id] = Stored(body, ex[1].id, m.is_tbd)],
             msgs |-> IF notify /\ api # "error"
                      THEN Append(acc.msgs, Message(IF outcome = "insert" THEN "Nuevo" ELSE "Actualizado", m, body))
                      ELSE acc.msgs,
             log |-> Append(acc.log,
                            Entry0(outcome, notify, ex, <<body>>,
                                   IF outcome \notin {"insert", "update"} THEN "none"
                                   ELSE IF api = "ok" THEN "ok"
                                   ELSE IF api = "ratelimit" THEN "refused"
                                   ELSE "raised", st)),
             nmp |-> acc.nmp \/ ShouldScan(m, now_utc, acc.nmp),
             aborted |-> outcome \in {"insert", "update"} /\ api = "error"]
        Decide(st, body, ex, o) == Commit(st, body, ex, o[1], o[2])
        Compare(st, body, ex) == Decide(st, body, ex, Outcome(m, ex, body))
        Render(st) == Compare(st, EventBody(m, tv_rows, st.stadium_name, st.full_address, st.lugar),
                              ExistingEvent(cal0, m.id))
    IN  IF acc.aborted THEN acc
        ELSE IF Filtered(m, now_utc, cal0)
        THEN [acc EXCEPT !.log = Append(@, [outcome |-> "filtered", notify |-> FALSE,
                                            ev |-> <<>>, body |-> <<>>, match |-> m, now |-> now_utc,
                                            result |-> "none", scanned |-> FALSE, updated |-> FALSE,
                                            attempts |-> 0, fails |-> fails, db0 |-> acc.db, db |-> acc.db])]
        ELSE Render(StadiumStep(acc.db, acc.dirty, m, now_utc, acc.nmp, fails, Today(now_utc)))

RECURSIVE Loop(_, _, _, _, _, _, _)
Loop(acc, matches, cal0, tv_rows, now_utc, fails, api) ==
    IF matches = <<>> THEN acc
    ELSE Loop(ProcessMatch(acc, Head(matches), cal0, tv_rows, now_utc, fails, api),
              Tail(matches), cal0, tv_rows, now_utc, fails, api)

\* run_sync in a fresh process: the state when it returns or raises
SyncResult(file, cal, up, now_utc, fails, api, save_ok) ==
    LET End(acc, saved) ==
            [db |-> acc.db,
             dirty |-> IF saved THEN save_dirty(acc.dirty, save_ok) ELSE acc.dirty,
             file |-> IF saved THEN save_file(acc.db, acc.dirty, file, save_ok) ELSE file,
             cal |-> acc.cal,
             msgs |-> IF acc.aborted THEN <<>> ELSE acc.msgs,
             log |-> acc.log]
        Done(acc, matches) == End(acc, matches # <<>> /\ ~acc.aborted)
        Run(matches) ==
            Done(Loop([db |-> load_stadium_db(file), dirty |-> FALSE, cal |-> cal, msgs |-> <<>>,
                       log |-> <<>>, nmp |-> FALSE, aborted |-> FALSE],
                      matches, cal, up.tv, now_utc, fails, api),
                 matches)
    IN  Run(fetch_matches(up.elems))

----------------------------------------------------------------------------
(* The world the model explores *)

MaxMatches == 2     \* match elements on the fixtures page
MaxEdits == 1       \* changes of the environment in one behaviour
MaxCycles == 2      \* sync cycles counted since the environment last changed
MaxUpdates == 3     \* update_db calls since the registry was last loaded

Celta == <<"C","e","l","t","a">>
RealMadrid == <<"R","e","a","l"," ","M","a","d","r","i","d">>
RealValladolidCF == <<"R","e","a","l"," ","V","a","l","l","a","d","o","l","i","d"," ","C","F">>
ValladolidCF == <<"V","a","l","l","a","d","o","l","i","d"," ","C","F">>
Valladolid == <<"V","a","l","l","a","d","o","l","i","d">>
Villarreal == <<"V","i","l","l","a","r","r","e","a","l">>
Balaidos == <<"B","a","l","a","i","d","o","s">>
JoseZorrilla == <<"J","o","s","e'"," ","Z","o","r","r","i","l","l","a">>
Municipal == <<"M","u","n","i","c","i","p","a","l">>
CampoMunicipal == <<"C","a","m","p","o"," ","M","u","n","i","c","i","p","a","l">>

At(y, mo, d, h, mi) == days_from_civil(y, mo, d) * SecondsPerDay + h * 3600 + mi * 60

KickoffPast == At(2026, 4, 26, 19, 0)        \* season 2025-2026, played before the first clock
KickoffSpring == At(2026, 5, 10, 19, 0)      \* season 2025-2026, played between the clocks
KickoffSummer == At(2026, 8, 15, 19, 0)      \* season 2026-2027
Clock == <<At(2026, 5, 1, 0, 0), At(2026, 6, 1, 0, 0)>>

LigaJ12 == <<"L","i","g","a","."," ","J","o","r","n","a","d","a"," ","1","2">>
Amistoso == <<"A","m","i","s","t","o","s","o">>

Element(local, visitante, start, hastime, comp, r1, r2, status, href, page) ==
    [starttime |-> Iso(start + 7200, 7200), hastime |-> hastime, href |-> href,
     local |-> local, visitante |-> visitante, comp |-> comp,
     r1 |-> r1, r2 |-> r2, status |-> status, page |-> page]

\* the match elements the fixtures page may show
Fixtures == {
    Element(Celta, RealMadrid, KickoffSpring, <<"0">>, LigaJ12, None, None, None, <<"URL1">>, Balaidos),
    Element(Celta, Villarreal, KickoffSpring, <<"1">>, LigaJ12, None, None, None, <<"URL2">>, Balaidos),
    Element(RealMadrid, Celta, KickoffSummer, <<"1">>, Amistoso, None, None, None, <<"URL3">>, None),
    Element(Celta, Valladolid, KickoffPast, <<"0">>, LigaJ12, <<"2">>, <<"1">>, <<"F","i","n">>, <<"URL4">>, Balaidos) }

RECURSIVE SeqsUpTo(_, _)
SeqsUpTo(S, n) ==
    IF n = 0 THEN {<<>>}
    ELSE SeqsUpTo(S, n - 1) \cup {Append(q, x) : q \in {r \in SeqsUpTo(S, n - 1) : Len(r) = n - 1}, x \in S}

\* the rows the TV guide may show for the spring kick-off's day
TvGuides == { << [date |-> DateKey(KickoffSpring), items |-> << <<"D","A","Z","N"," ","1">> >>] >>,
              << [date |-> DateKey(KickoffSpring), items |-> << <<"M","+"," ","L","a","L","i","g","a"," ","(","M","5","4",")">>, <<"H","e","l","l","o","t","i","c","k","e","t","s"," ","(","c","o","m","p","r","a","r",")">> >>] >>,
              << [date |-> DateKey(KickoffSpring), items |-> << <<"H","e","l","l","o","t","i","c","k","e","t","s">> >>] >> }

\* by how many seconds a kick-off may move
Shifts == {60, 300, SecondsPerDay}

\* how the calendar service may hand back a text it stored
MarkupKinds == {"br", "entity", "bold", "spaces"}
Markup(kind, t) ==
    IF kind = "br" THEN Replace(t, <<"\n">>, <<"<","b","r",">">>)
    ELSE IF kind = "entity" THEN Replace(Replace(t, <<"&">>, <<"&","a","m","p",";">>), <<" ">>, <<"&","n","b","s","p",";">>)
    ELSE IF kind = "bold" THEN <<"<","b",">">> \o t \o <<"<","/","b",">">>
    ELSE Replace(t, <<" ">>, <<" ", " ">>) \o <<" ">>

\* a sequence in reverse order
Reverse(q) == [i \in 1..Len(q) |-> q[Len(q) + 1 - i]]

\* nothing has been called on its own yet
NoCall == [op |-> "none"]

NoOutage == [api |-> "ok", fails |-> 0, save_ok |-> TRUE]
Outages == { [NoOutage EXCEPT !.api = "ratelimit"], [NoOutage EXCEPT !.api = "error"],
             [NoOutage EXCEPT !.fails = 1], [NoOutage EXCEPT !.fails = ScanAttempts],
             [NoOutage EXCEPT !.save_ok = FALSE] }

\* the teams, stadiums and places update_db may be called with, and a
\* stadiums.json that holds an entry with an alias
Teams == {RealValladolidCF, ValladolidCF}
Stadiums == {JoseZorrilla, Municipal, CampoMunicipal}
Places == {Valladolid}
SeedFile == <<Entry(RealValladolidCF, JoseZorrilla, Valladolid, <<Valladolid>>, Today(Clock[1]) - 1)>>

----------------------------------------------------------------------------
(* The state machine *)

Init ==
    /\ STADIUM_DB = <<>>
    /\ DB_DIRTY = FALSE
    /\ db_file = NoFile
    /\ updLog = <<>>
    /\ calendar = <<>>
    /\ upstream \in [elems : SeqsUpTo(Fixtures, MaxMatches), tv : {<<>>}]
    /\ now = Clock[1]
    /\ outage = NoOutage
    /\ edits = 0
    /\ cycles = 0
    /\ lastRun = <<>>
    /\ lastCall = NoCall
    /\ telegram_msgs = <<>>

\* main(): a fresh process runs run_sync to its end
RunSync ==
    LET Land(r) ==
            /\ STADIUM_DB' = r.db
            /\ DB_DIRTY' = r.dirty
            /\ db_file' = r.file
            /\ calendar' = r.cal
            /\ lastRun' = r.log
            /\ telegram_msgs' = r.msgs
    IN  /\ Land(SyncResult(db_file, calendar, upstream, now, outage.fails, outage.api, outage.save_ok))
        /\ cycles' = IF cycles < MaxCycles THEN cycles + 1 ELSE cycles
        /\ updLog' = <<>>
        /\ UNCHANGED <<upstream, now, outage, edits, lastCall>>

\* the environment changes something: the count of cycles starts again
Edit ==
    /\ edits < MaxEdits
    /\ edits' = edits + 1
    /\ cycles' = 0
    /\ UNCHANGED <<STADIUM_DB, DB_DIRTY, db_file, updLog, lastRun, lastCall, telegram_msgs>>

\* the fixtures page shows element i at another time
Reschedule(i, d) ==
    /\ Edit
    /\ upstream' = [upstream EXCEPT !.elems[i].starttime.wall = @ + d]
    /\ UNCHANGED <<calendar, now, outage>>

\* the fixtures page flips the hastime attribute of element i
SetHasTime(i) ==
    /\ Edit
    /\ upstream' = [upstream EXCEPT !.elems[i].hastime = IF @ = <<"1">> THEN <<"0">> ELSE <<"1">>]
    /\ UNCHANGED <<calendar, now, outage>>

\* the fixtures page shows element i, kicked off by now, as finished, with a score
Finish(i) ==
    /\ Edit
    /\ upstream.elems[i].status = None
    /\ parse_besoccer_date(upstream.elems[i].starttime) < now
    /\ upstream' = [upstream EXCEPT !.elems[i].status = <<"F","i","n">>,
                                    !.elems[i].r1 = <<"1">>, !.elems[i].r2 = <<"2">>]
    /\ UNCHANGED <<calendar, now, outage>>

\* the TV guide changes
SetTv(rows) ==
    /\ Edit
    /\ upstream.tv # rows
    /\ upstream' = [upstream EXCEPT !.tv = rows]
    /\ UNCHANGED <<calendar, now, outage>>

\* time passes
Tick ==
    /\ now = Clock[1]
    /\ now' = Clock[2]
    /\ cycles' = 0
    /\ UNCHANGED <<STADIUM_DB, DB_DIRTY, db_file, updLog, calendar, upstream, outage, edits,
                   lastRun, lastCall, telegram_msgs>>

\* the calendar service hands back the texts of event e with markup
CalendarMarkup(e, kind) ==
    /\ Edit
    /\ calendar' = [calendar EXCEPT ![e].summary = Markup(kind, @),
                                    ![e].description = Markup(kind, @),
                                    ![e].location = Markup(kind, @)]
    /\ UNCHANGED <<upstream, now, outage>>

\* the calendar service hands back the reminder overrides of event e in reverse order
CalendarReminders(e) ==
    /\ Edit
    /\ Len(calendar[e].reminders) > 1
    /\ calendar' = [calendar EXCEPT ![e].reminders = Reverse(@)]
    /\ UNCHANGED <<upstream, now, outage>>

\* the calendar API, the fixtures site or the disk starts to fail
Outage(o) ==
    /\ Edit
    /\ outage = NoOutage
    /\ outage' = o
    /\ UNCHANGED <<calendar, upstream, now>>

Next ==
    \/ RunSync
    \/ \E i \in 1..Len(upstream.elems) : \E d \in Shifts : Reschedule(i, d)
    \/ \E i \in 1..Len(upstream.elems) : SetHasTime(i)
    \/ \E i \in 1..Len(upstream.elems) : Finish(i)
    \/ \E rows \in TvGuides : SetTv(rows)
    \/ Tick
    \/ \E e \in 1..Len(calendar) : \E kind \in MarkupKinds : CalendarMarkup(e, kind)
    \/ \E e \in 1..Len(calendar) : CalendarReminders(e)
    \/ \E o \in Outages : Outage(o)

Spec == Init /\ [][Next]_vars

----------------------------------------------------------------------------
(* The registry alone: load_stadium_db first, as in run_sync, then            *)
(* load_stadium_db, update_db and save_stadium_db in any order             *)

InitRegistry ==
    /\ STADIUM_DB = <<>>
    /\ DB_DIRTY = FALSE
    /\ db_file \in {NoFile, BadFile, SeedFile}
    /\ updLog = <<>>
    /\ calendar = <<>>
    /\ upstream = [elems |-> <<>>, tv |-> <<>>]
    /\ now = Clock[1]
    /\ outage = NoOutage
    /\ edits = 0
    /\ cycles = 0
    /\ lastRun = <<>>
    /\ lastCall = NoCall
    /\ telegram_msgs = <<>>

\* load_stadium_db()
LoadDb ==
    /\ STADIUM_DB' = load_stadium_db(db_file)
    /\ updLog' = <<>>
    /\ lastCall' = [op |-> "load", file |-> db_file]
    /\ UNCHANGED <<DB_DIRTY, db_file, calendar, upstream, now, outage, edits, cycles, lastRun, telegram_msgs>>

\* update_db(team_name, stadium, location); the log keeps the call and the registry before it
UpdateDb(team_name, stadium, location) ==
    /\ lastCall # NoCall
    /\ Len(updLog) < MaxUpdates
    /\ STADIUM_DB' = update_db(STADIUM_DB, team_name, stadium, location, Today(now))
    /\ DB_DIRTY' = update_dirty(DB_DIRTY, stadium)
    /\ updLog' = Append(updLog, [team_name |-> team_name, stadium |-> stadium, location |-> location,
                                 before |-> STADIUM_DB])
    /\ lastCall' = [op |-> "update", team_name |-> team_name, stadium |-> stadium,
                    location |-> location, db |-> STADIUM_DB, dirty |-> DB_DIRTY]
    /\ UNCHANGED <<db_file, calendar, upstream, now, outage, edits, cycles, lastRun, telegram_msgs>>

\* save_stadium_db(), the write succeeding or raising
SaveDb(save_ok) ==
    /\ lastCall # NoCall
    /\ db_file' = save_file(STADIUM_DB, DB_DIRTY, db_file, save_ok)
    /\ DB_DIRTY' = save_dirty(DB_DIRTY, save_ok)
    /\ lastCall' = [op |-> "save", save_ok |-> save_ok, db |-> STADIUM_DB, dirty |-> DB_DIRTY,
                    file |-> db_file]
    /\ UNCHANGED <<STADIUM_DB, updLog, calendar, upstream, now, outage, edits, cycles, lastRun, telegram_msgs>>

NextRegistry ==
    \/ LoadDb
    \/ \E t \in Teams : \E st \in Stadiums : \E loc \in Places : UpdateDb(t, st, loc)
    \/ \E ok \in BOOLEAN : SaveDb(ok)

SpecRegistry == InitRegistry /\ [][NextRegistry]_vars

----------------------------------------------------------------------------
(* The functions alone: each behaviour calls one of them once, on an input *)
(* drawn from a bounded set                                                *)

MaxChannels == 3    \* <li> items in a channel list
MaxRecords == 3     \* match elements handed to fetch_matches on its own

\* the registries a lookup may meet: empty, the key "Valladolid" alone, a key
\* with an alias, an entry without a location, an entry with one, two keys
Registries == {
    <<>>,
    <<Entry(Valladolid, JoseZorrilla, Valladolid, <<>>, 0)>>,
    SeedFile,
    <<Entry(Celta, Balaidos, None, <<>>, 0)>>,
    <<Entry(Celta, Balaidos, Balaidos \o <<",", " ">> \o Celta, <<>>, 0)>>,
    <<Entry(Villarreal, Municipal, Villarreal, <<>>, 0), Entry(Valladolid, JoseZorrilla, Valladolid, <<>>, 0)>>,
    <<Entry(Celta, Balaidos, Balaidos \o <<",", " ">> \o Celta, <<ValladolidCF>>, 0),
      Entry(Valladolid, JoseZorrilla, Valladolid, <<>>, 0)>> }

\* find_stadium_dynamic(team_name) with STADIUM_DB = db
Lookup(db, team_name) ==
    /\ lastCall = NoCall
    /\ lastCall' = [op |-> "lookup", db |-> db, team_name |-> team_name,
                    result |-> find_stadium_dynamic(db, team_name)]
    /\ UNCHANGED <<STADIUM_DB, DB_DIRTY, db_file, updLog, calendar, upstream, now, outage, edits,
                   cycles, lastRun, telegram_msgs>>

\* the texts of the <li> items of a channel list
Channels == { <<"D","A","Z","N"," ","1">>, <<"L","a"," ","1">>, <<"G","O","L"," ","P","L","A","Y">>,
              <<"M","+"," ","L","a","L","i","g","a"," ","(","M","5","4",")">>,
              <<"M","+"," ","L","a","L","i","g","a"," ","(","M","5","2",")">>,
              <<"M","+"," ","G","o","l">>,
              <<"A","m","a","z","o","n">>,
              <<"M","o","v","i","s","t","a","r"," ","L","i","g","a"," ","d","e"," ","C","a","m","p","e","o","n","e","s">>,
              <<"H","e","l","l","o","t","i","c","k","e","t","s"," ","(","c","o","m","p","r","a","r",")">> }

\* parse_tv_channels(ul_element)
ParseTv(ul) ==
    /\ lastCall = NoCall
    /\ lastCall' = [op |-> "parse_tv", ul |-> ul, result |-> parse_tv_channels(ul)]
    /\ UNCHANGED <<STADIUM_DB, DB_DIRTY, db_file, updLog, calendar, upstream, now, outage, edits,
                   cycles, lastRun, telegram_msgs>>

\* the match elements fetch_matches may be handed on its own: Celta Vigo v Real
\* Madrid twice on 2025-03-02, a home name with a space among its first three
\* characters, an element without a readable starttime, one without a home
\* name, one with hastime="1"
RawElements ==
    LET CeltaVigo == Celta \o <<" ","V","i","g","o">>
        Of(local, h, href) == Element(local, RealMadrid, At(2025, 3, 2, h, 0), <<"0">>, LigaJ12,
                                      None, None, None, href, None)
    IN  { Of(CeltaVigo, 20, <<"URL1">>),
          Of(CeltaVigo, 12, <<"URL2">>),
          Of(<<"L","a"," ","C","o","r","u","n~","a">>, 20, <<"URL3">>),
          [Of(CeltaVigo, 20, <<"URL4">>) EXCEPT !.starttime = BadIso],
          [Of(CeltaVigo, 20, <<"URL5">>) EXCEPT !.local = None],
          [Of(CeltaVigo, 20, <<"URL6">>) EXCEPT !.hastime = <<"1">>] }

\* fetch_matches(driver), the page showing elems
FetchMatches(elems) ==
    /\ lastCall = NoCall
    /\ lastCall' = [op |-> "fetch_matches", elems |-> elems, result |-> fetch_matches(elems)]
    /\ UNCHANGED <<STADIUM_DB, DB_DIRTY, db_file, updLog, calendar, upstream, now, outage, edits,
                   cycles, lastRun, telegram_msgs>>

\* the stadium block and event_body of run_sync for the match of element e
\* alone, with STADIUM_DB = db at the first clock, next_match_processed = nmp
\* and fails raising scrape attempts
RenderMatch(db, e, nmp, fails) ==
    LET Of(m, st) == [op |-> "render", db |-> db, match |-> m, nmp |-> nmp, fails |-> fails,
                      now |-> Clock[1],
                      body |-> EventBody(m, <<>>, st.stadium_name, st.full_address, st.lugar)]
        With(m) == Of(m, StadiumStep(db, FALSE, m, Clock[1], nmp, fails, Today(Clock[1])))
    IN  /\ lastCall = NoCall
        /\ lastCall' = With(MatchOf(e))
        /\ UNCHANGED <<STADIUM_DB, DB_DIRTY, db_file, updLog, calendar, upstream, now, outage, edits,
                       cycles, lastRun, telegram_msgs>>

\* execute_with_retry(request), the service answering as request says
ExecuteWithRetry(request) ==
    /\ lastCall = NoCall
    /\ lastCall' = [op |-> "execute_with_retry", request |-> request,
                    result |-> execute_with_retry(request, 0)]
    /\ UNCHANGED <<STADIUM_DB, DB_DIRTY, db_file, updLog, calendar, upstream, now, outage, edits,
                   cycles, lastRun, telegram_msgs>>

NextFunctions ==
    \/ \E db \in Registries :
           \E t \in {RealValladolidCF, ValladolidCF, Valladolid, Villarreal, Celta, RealMadrid} :
               Lookup(db, t)
    \/ \E ul \in SeqsUpTo(Channels, MaxChannels) : ParseTv(ul)
    \/ ParseTv(NoUl)
    \/ \E elems \in SeqsUpTo(RawElements, MaxRecords) : FetchMatches(elems)
    \/ \E db \in Registries : \E e \in Fixtures : \E nmp \in BOOLEAN : \E fails \in {0, ScanAttempts} :
           RenderMatch(db, e, nmp, fails)
    \/ \E request \in [1..(RetryAttempts + 1) -> {"ok", "ratelimit", "error"}] : ExecuteWithRetry(request)

\* before the call: an empty registry in memory, no registry file
InitFunctions == InitRegistry /\ db_file = NoFile

SpecFunctions == InitFunctions /\ [][NextFunctions]_vars

----------------------------------------------------------------------------
(* What a cycle's log says *)

\* the turns of the loop of the last cycle
Logged == {lastRun[i] : i \in 1..Len(lastRun)}

AbsDiff(a, b) == IF a > b THEN a - b ELSE b - a

\* |existing.startUtc - candidate.kickoffUtc| of a turn that found an event
StartDiff(e) == AbsDiff(parse_google_iso(e.ev[1].start), e.match.inicio)

\* the "home vs away"/score segment of a title: what precedes the first bar
Core(title) == FirstPart(title, "|")

\* the turn found an event and the consolidated-result skip did not apply
Compared(e) == e.ev # <<>> /\ ~Frozen(e.match, e.ev[1])

\* the existing texts are the candidate's, with markup of kind k
MarkedUp(e, k) ==
    /\ e.ev[1].summary = Markup(k, e.body[1].summary)
    /\ e.ev[1].description = Markup(k, e.body[1].description)
    /\ e.ev[1].location = Markup(k, e.body[1].location)

\* how often x occurs in q
Count(q, x) == Cardinality({i \in 1..Len(q) : q[i] = x})

\* q is a prefix of r
IsPrefix(q, r) == Len(q) <= Len(r) /\ SubSeq(r, 1, Len(q)) = q

\* the items of a comma-joined list
RECURSIVE SplitComma(_)
SplitComma(t) ==
    IF \E i \in 1..(Len(t) - 1) : t[i] = "," /\ t[i + 1] = " "
    THEN <<FirstPart(t, ",")>> \o SplitComma(SubSeq(t, Len(FirstPart(t, ",")) + 3, Len(t)))
    ELSE <<t>>

\* the channels of the full string parse_tv_channels returned, << >> without one
Listed(call) == IF Truthy(call.result[2]) THEN SplitComma(call.result[2]) ELSE <<>>

\* the registry after the i-th logged update_db call
After(i) == IF i < Len(updLog) THEN updLog[i + 1].before ELSE STADIUM_DB

----------------------------------------------------------------------------
(* Claims *)

\* C1: a cycle that follows a cycle on unchanged fixtures, TV data and clock,
\* with nothing failing, skips every fixture that already has an event: no
\* request and no notification for it.
C1_Idempotence ==
    (cycles >= 2 /\ outage = NoOutage) =>
        \A e \in Logged :
            e.ev # <<>> => e.outcome \in {"skip", "frozen"} /\ e.result = "none" /\ ~e.notify

\* C2: the calendar never holds two events with the same match_id.
C2_NoDuplicates ==
    \A i, j \in 1..Len(calendar) : calendar[i].match_id = calendar[j].match_id => i = j

\* C3 as stated: every fixture without an existing event is inserted.
C3_NotPresentInserts ==
    \A e \in Logged : e.ev = <<>> => e.outcome = "insert"

\* C3, amended: every fixture without an existing event that is not in the
\* past, or is finished, is inserted: an insert request with the rendered body
\* is issued, and the event is in the calendar when the request is carried out.
C3_NotPresentInsertsUnlessStale ==
    \A e \in Logged :
        (e.ev = <<>> /\ (e.match.inicio >= e.now \/ IsFinished(e.match))) =>
            /\ e.outcome = "insert" /\ e.body # <<>> /\ e.result # "none"
            /\ e.result = "ok" =>
                   \E i \in 1..Len(calendar) : calendar[i].match_id = e.body[1].match_id

\* a finished fixture of the past, without an event, has been inserted
C3_Witness ==
    \E e \in Logged :
        e.ev = <<>> /\ e.match.inicio < e.now /\ IsFinished(e.match)
            /\ e.outcome = "insert" /\ e.result = "ok"

\* C4 as stated: an existing event whose start differs by more than 60 s from
\* the kick-off is updated with a notification, whatever the other fields are.
C4_TimeChangeNotifies ==
    \A e \in Logged :
        (e.ev # <<>> /\ StartDiff(e) > TimeTolerance) => e.outcome = "update" /\ e.notify

\* C4, amended: unless the fixture is skipped as a consolidated result, a start
\* difference above 60 s gives an update with a notification, and a difference
\* of 60 s or less with nothing else differing gives no update.
C4_TimeChangeNotifiesUnlessFrozen ==
    \A e \in Logged :
        Compared(e) =>
            /\ StartDiff(e) > TimeTolerance => e.outcome = "update" /\ e.notify /\ e.result # "none"
            /\ (/\ StartDiff(e) <= TimeTolerance
                /\ ~title_changed(e.ev[1], e.body[1])
                /\ ~desc_changed(e.ev[1], e.body[1])
                /\ ~loc_changed(e.ev[1], e.body[1])
                /\ ~reminders_changed(e.ev[1], e.body[1])) => e.outcome = "skip" /\ e.result = "none"

\* a kick-off has moved by 60 s and nothing happened
C4_Witness ==
    \E e \in Logged :
        Compared(e) /\ StartDiff(e) = TimeTolerance /\ e.outcome = "skip"

\* C5: with the start within 60 s, the same core segment of the title and the
\* same TBD status, a title that differs in its suffixes queues no notification.
C5_SuffixesIgnored ==
    \A e \in Logged :
        (/\ Compared(e)
         /\ StartDiff(e) <= TimeTolerance
         /\ Core(normalize_text(e.ev[1].summary)) = Core(normalize_text(e.body[1].summary))
         /\ e.ev[1].written_tbd = e.match.is_tbd) => ~e.notify

C7_MinorChangeSilent ==
    \A e \in Logged :
        (/\ e.ev # <<>>
         /\ StartDiff(e) <= TimeTolerance
         /\ ~title_changed(e.ev[1], e.body[1])
         /\ \/ desc_changed(e.ev[1], e.body[1])
            \/ loc_changed(e.ev[1], e.body[1])
            \/ reminders_changed(e.ev[1], e.body[1])) => e.outcome = "update" /\ ~e.notify

\* C7, amended: the same unless the fixture is skipped as a consolidated
\* result; the update request is issued and no line is queued.
C7_MinorChangeSilentUnlessFrozen ==
    \A e \in Logged :
        (/\ Compared(e)
         /\ StartDiff(e) <= TimeTolerance
         /\ ~title_changed(e.ev[1], e.body[1])
         /\ \/ desc_changed(e.ev[1], e.body[1])
            \/ loc_changed(e.ev[1], e.body[1])
            \/ reminders_changed(e.ev[1], e.body[1])) =>
            e.outcome = "update" /\ ~e.notify /\ e.result # "none"

\* the reminders alone differed and the event was updated in silence
C7_Witness ==
    \E e \in Logged :
        /\ Compared(e) /\ StartDiff(e) <= TimeTolerance
        /\ ~title_changed(e.ev[1], e.body[1])
        /\ ~desc_changed(e.ev[1], e.body[1]) /\ ~loc_changed(e.ev[1], e.body[1])
        /\ reminders_changed(e.ev[1], e.body[1])
        /\ e.outcome = "update" /\ ~e.notify /\ e.result = "ok"
        /\ telegram_msgs = <<>>

\* C8: an existing event whose title, description and location are the
\* candidate's with entities, tags or runs of whitespace put in, and whose start
\* and reminders are the candidate's, is skipped.
C8_MarkupIsNoChange ==
    \A e \in Logged :
        (/\ e.ev # <<>>
         /\ e.ev[1].start = e.body[1].start
         /\ e.ev[1].reminders = e.body[1].reminders
         /\ \E k \in MarkupKinds : MarkedUp(e, k)) =>
            e.outcome \in {"skip", "frozen"} /\ e.result = "none" /\ ~e.notify

\* an event whose texts carry tags has been skipped
C8_Witness ==
    \E e \in Logged :
        /\ e.ev # <<>> /\ e.ev[1].start = e.body[1].start /\ e.ev[1].reminders = e.body[1].reminders
        /\ MarkedUp(e, "bold") /\ e.ev[1].summary # e.body[1].summary
        /\ e.outcome = "skip"

\* C11: update_db drops the write exactly when the lower-cased stadium holds
\* a blacklisted term and is shorter than 15 characters: the registry and the
\* dirty flag stay as they were; otherwise, a stadium of 15 characters or more
\* that holds a blacklisted term included, the entry is written and the flag set.
C11_QualityGate ==
    lastCall.op = "update" =>
        IF (\E term \in invalid_terms : Contains(Lower(lastCall.stadium), term))
               /\ Len(lastCall.stadium) < QualityLen
        THEN STADIUM_DB = lastCall.db /\ DB_DIRTY = lastCall.dirty
        ELSE /\ DB_DIRTY
             /\ \E i \in 1..Len(STADIUM_DB) :
                    /\ STADIUM_DB[i].key = lastCall.team_name
                    /\ STADIUM_DB[i].stadium = lastCall.stadium
                    /\ STADIUM_DB[i].location = lastCall.location

\* a short blacklisted stadium has been dropped, and the team keeps the entry
\* written before with a blacklisted stadium of 15 characters
C11_Witness ==
    /\ lastCall.op = "update" /\ lastCall.stadium = Municipal
    /\ \E i \in 1..Len(STADIUM_DB) :
           STADIUM_DB[i].key = lastCall.team_name /\ STADIUM_DB[i].stadium = CampoMunicipal

\* C12: save_stadium_db writes the registry to the file exactly when the dirty
\* flag is set; a write that succeeds clears the flag; a write that fails
\* leaves the file, the registry and the set flag as they were, so the next
\* save writes again.
C12_SaveGatedByDirty ==
    lastCall.op = "save" =>
        /\ STADIUM_DB = lastCall.db
        /\ ~lastCall.dirty => db_file = lastCall.file /\ ~DB_DIRTY
        /\ (lastCall.dirty /\ lastCall.save_ok) => db_file = lastCall.db /\ ~DB_DIRTY
        /\ (lastCall.dirty /\ ~lastCall.save_ok) =>
               /\ db_file = lastCall.file /\ DB_DIRTY
               /\ save_file(STADIUM_DB, DB_DIRTY, db_file, TRUE) = STADIUM_DB

\* a save has failed with the flag set and something to write
C12_Witness ==
    /\ lastCall.op = "save" /\ lastCall.dirty /\ ~lastCall.save_ok
    /\ DB_DIRTY /\ STADIUM_DB # <<>> /\ db_file = NoFile

\* C13 as stated: the file missing or unreadable, the load leaves the registry
\* empty and every later lookup of the process finds nothing.
C13_LoadFailureFindsNothing ==
    (lastCall # NoCall /\ (db_file = NoFile \/ db_file = BadFile)) =>
        \A t \in Teams \cup {Valladolid} : find_stadium_dynamic(STADIUM_DB, t) = <<None, None>>

\* C13, amended: the file missing or unreadable, the load leaves the registry
\* empty, and every lookup finds nothing as long as no update_db call has
\* written an entry since.
C13_LoadFailureFindsNothingUntilUpdate ==
    (/\ lastCall # NoCall /\ (db_file = NoFile \/ db_file = BadFile)
     /\ \A i \in 1..Len(updLog) : Rejected(updLog[i].stadium)) =>
        /\ STADIUM_DB = <<>>
        /\ \A t \in Teams \cup {Valladolid} : find_stadium_dynamic(STADIUM_DB, t) = <<None, None>>

\* an unreadable file has been loaded over a registry that held an entry
C13_Witness ==
    lastCall.op = "load" /\ lastCall.file = BadFile /\ DB_DIRTY /\ STADIUM_DB = <<>>

\* C14: a lookup that finds neither the exact key nor, failing a close key,
\* an alias, resolves to an entry only if the normalized key of that entry is
\* similar to the normalized team name by 0.85 or more, and finds nothing when
\* no key is; the key "Valladolid" alone resolves "Real Valladolid CF" and
\* does not resolve "Villarreal".
C14_FuzzyThreshold ==
    lastCall.op = "lookup" =>
        /\ (/\ \A i \in 1..Len(lastCall.db) :
                   /\ lastCall.db[i].key # lastCall.team_name
                   /\ \A a \in 1..Len(lastCall.db[i].aliases) :
                          lastCall.db[i].aliases[a] # lastCall.team_name) =>
               IF \E i \in 1..Len(lastCall.db) :
                      AtLeastCutoff(Ratio(normalize_team_key(lastCall.db[i].key),
                                          normalize_team_key(lastCall.team_name)))
               THEN \E i \in 1..Len(lastCall.db) :
                        /\ AtLeastCutoff(Ratio(normalize_team_key(lastCall.db[i].key),
                                               normalize_team_key(lastCall.team_name)))
                        /\ lastCall.result = <<lastCall.db[i].stadium, lastCall.db[i].location>>
               ELSE lastCall.result = <<None, None>>
        /\ (lastCall.db = <<Entry(Valladolid, JoseZorrilla, Valladolid, <<>>, 0)>>) =>
               /\ lastCall.team_name = RealValladolidCF => lastCall.result = <<JoseZorrilla, Valladolid>>
               /\ lastCall.team_name = Villarreal => lastCall.result = <<None, None>>

\* "Villarreal" has been looked up in the registry whose only key is "Valladolid"
C14_Witness ==
    /\ lastCall.op = "lookup" /\ lastCall.team_name = Villarreal
    /\ lastCall.db = <<Entry(Valladolid, JoseZorrilla, Valladolid, <<>>, 0)>>
    /\ lastCall.result = <<None, None>>

\* C15: the full string parse_tv_channels returns holds each channel once.
C15_NoDuplicateChannels ==
    lastCall.op = "parse_tv" =>
        \A i, j \in 1..Len(Listed(lastCall)) :
            Listed(lastCall)[i] = Listed(lastCall)[j] => i = j

\* C16: the full string holds the kept channels, each once for each time it
\* was kept, the free ones first, then DAZN, then Movistar, then the others,
\* in the order of the input inside each tier; a channel that matches several
\* tiers is in the first of them.
C16_TierOrder ==
    (lastCall.op = "parse_tv" /\ lastCall.ul # NoUl) =>
        /\ Len(Listed(lastCall)) = Len(KeptChannels(lastCall.ul))
        /\ \A i, j \in 1..Len(Listed(lastCall)) :
               i < j => Bucket(Listed(lastCall)[i]) <= Bucket(Listed(lastCall)[j])
        /\ \A b \in 1..4 :
               SelectSeq(Listed(lastCall), LAMBDA ch : Bucket(ch) = b)
                   = SelectSeq(KeptChannels(lastCall.ul), LAMBDA ch : Bucket(ch) = b)
        /\ \A i \in 1..Len(Listed(lastCall)) :
               /\ Contains(Upper(Listed(lastCall)[i]), <<"G","O","L">>) => Bucket(Listed(lastCall)[i]) = 1
               /\ Contains(Listed(lastCall)[i], <<"A","m","a","z","o","n">>) => Bucket(Listed(lastCall)[i]) = 4

\* a list given as Movistar, an unknown channel, a free one has come out as
\* the free one, Movistar, the unknown one
C16_Witness ==
    /\ lastCall.op = "parse_tv"
    /\ lastCall.ul = << <<"M","+"," ","G","o","l">>, <<"A","m","a","z","o","n">>, <<"D","A","Z","N"," ","1">> >>
    /\ Listed(lastCall) = << <<"M","+"," ","G","o","l">>, <<"D","A","Z","N"," ","1">>, <<"A","m","a","z","o","n">> >>

\* C17: the id holds no capital and no space; Celta Vigo v Real Madrid on
\* 2025-03-02 has the id 20250302_cel_rea; two matches on the same UTC day
\* whose home names and whose away names share their first three characters
\* have the same id.
C17_FixtureIdentity ==
    lastCall.op = "fetch_matches" =>
        \A i \in 1..Len(lastCall.result) :
            /\ \A k \in 1..Len(lastCall.result[i].id) :
                   lastCall.result[i].id[k] # " " /\ lastCall.result[i].id[k] \notin DOMAIN ToLower
            /\ (/\ lastCall.result[i].local = Celta \o <<" ","V","i","g","o">>
                /\ lastCall.result[i].visitante = RealMadrid
                /\ DateKey(lastCall.result[i].inicio) = <<"2","0","2","5","-","0","3","-","0","2">>) =>
                   lastCall.result[i].id
                       = <<"2","0","2","5","0","3","0","2","_","c","e","l","_","r","e","a">>
            /\ \A j \in 1..Len(lastCall.result) :
                   (/\ DateKey(lastCall.result[i].inicio) = DateKey(lastCall.result[j].inicio)
                    /\ Prefix(lastCall.result[i].local, 3) = Prefix(lastCall.result[j].local, 3)
                    /\ Prefix(lastCall.result[i].visitante, 3) = Prefix(lastCall.result[j].visitante, 3)) =>
                       lastCall.result[i].id = lastCall.result[j].id

\* two matches of the same pair, at different hours of the same day, have
\* come out with the id 20250302_cel_rea
C17_Witness ==
    /\ lastCall.op = "fetch_matches" /\ Len(lastCall.result) = 2
    /\ lastCall.result[1].inicio # lastCall.result[2].inicio
    /\ lastCall.result[1].id = <<"2","0","2","5","0","3","0","2","_","c","e","l","_","r","e","a">>
    /\ lastCall.result[2].id = lastCall.result[1].id

\* C18 as stated: the location of a rendered match is a non-empty text, and
\* whenever the registry finds no location for the home team it is the
\* placeholder "Estadio Local (<home>)" or "Estadio Visitante (<home>)".
C18_VenueNeverEmpty ==
    lastCall.op = "render" =>
        /\ lastCall.body.location # <<>> /\ lastCall.body.location # None
        /\ ~Truthy(find_stadium_dynamic(lastCall.db, lastCall.match.local)[2]) =>
               lastCall.body.location
                   = (IF lastCall.match.local = Celta
                      THEN <<"E","s","t","a","d","i","o"," ","L","o","c","a","l"," ","(">>
                      ELSE <<"E","s","t","a","d","i","o"," ","V","i","s","i","t","a","n","t","e"," ","(">>)
                     \o lastCall.match.local \o <<")">>

\* C18: the location of a rendered match is a non-empty text, and whenever the
\* registry finds no location for the home team and no stadium text was read
\* from the match's own page in this cycle it is the placeholder
\* "Estadio Local (<home>)" or "Estadio Visitante (<home>)".
C18_VenueNeverEmptyUnlessScraped ==
    lastCall.op = "render" =>
        /\ lastCall.body.location # <<>> /\ lastCall.body.location # None
        /\ (/\ ~Truthy(find_stadium_dynamic(lastCall.db, lastCall.match.local)[2])
            /\ ~(/\ lastCall.match.inicio > lastCall.now /\ ~lastCall.nmp /\ ~lastCall.match.is_tbd
                  /\ lastCall.fails < ScanAttempts
                  /\ Truthy(lastCall.match.link) /\ Truthy(lastCall.match.page))) =>
               lastCall.body.location
                   = (IF lastCall.match.local = Celta
                      THEN <<"E","s","t","a","d","i","o"," ","L","o","c","a","l"," ","(">>
                      ELSE <<"E","s","t","a","d","i","o"," ","V","i","s","i","t","a","n","t","e"," ","(">>)
                     \o lastCall.match.local \o <<")">>

\* a match of Celta at home was rendered from a registry whose entry for
\* Celta has no location, and its location is "Estadio Local (Celta)"
C18_Witness ==
    /\ lastCall.op = "render"
    /\ lastCall.match.local = Celta
    /\ find_stadium_dynamic(lastCall.db, Celta)[1] = Balaidos
    /\ find_stadium_dynamic(lastCall.db, Celta)[2] = None
    /\ lastCall.body.location = <<"E","s","t","a","d","i","o"," ","L","o","c","a","l"," ","(","C","e","l","t","a",")">>

\* C19: fetch_matches returns one record for each element that has a readable
\* start time and both team names, in the order of the page, and none for the
\* others.
C19_MalformedIsolated ==
    lastCall.op = "fetch_matches" =>
        [i \in 1..Len(lastCall.result) |-> lastCall.result[i].link]
            = [i \in 1..Len(SelectSeq(lastCall.elems,
                                      LAMBDA e : e.starttime.valid /\ e.local # None /\ e.visitante # None))
                  |-> SelectSeq(lastCall.elems,
                                LAMBDA e : e.starttime.valid /\ e.local # None /\ e.visitante # None)[i].href]

\* an element without a readable start time stood between two others, and
\* the two others have come out
C19_Witness ==
    /\ lastCall.op = "fetch_matches" /\ Len(lastCall.elems) = 3
    /\ ~lastCall.elems[2].starttime.valid
    /\ Len(lastCall.result) = 2
    /\ lastCall.result[1].link = lastCall.elems[1].href
    /\ lastCall.result[2].link = lastCall.elems[3].href

\* C20: an existing event that is compared, equal to the candidate in start,
\* title, description and location, whose reminder overrides hold the
\* candidate's minute values in another order, is skipped.
C20_ReminderOrderInsensitive ==
    \A e \in Logged :
        (/\ Compared(e)
         /\ StartDiff(e) = 0
         /\ e.ev[1].summary = e.body[1].summary
         /\ e.ev[1].description = e.body[1].description
         /\ e.ev[1].location = e.body[1].location
         /\ Len(e.ev[1].reminders) = Len(e.body[1].reminders)
         /\ {e.ev[1].reminders[i].minutes : i \in 1..Len(e.ev[1].reminders)}
                = {e.body[1].reminders[i].minutes : i \in 1..Len(e.body[1].reminders)}
         /\ e.ev[1].reminders # e.body[1].reminders) =>
            e.outcome = "skip"

\* C21 as stated: an existing event equal to the candidate in start, title,
\* description and location, whose reminder overrides are the candidate's in
\* another order, is updated without notification.
C21_ReminderOrderUpdates ==
    \A e \in Logged :
        (/\ e.ev # <<>>
         /\ StartDiff(e) = 0
         /\ e.ev[1].summary = e.body[1].summary
         /\ e.ev[1].description = e.body[1].description
         /\ e.ev[1].location = e.body[1].location
         /\ e.ev[1].reminders # e.body[1].reminders
         /\ e.ev[1].reminders = Reverse(e.body[1].reminders)) =>
            e.outcome = "update" /\ ~e.notify

\* C21, amended: the same unless the fixture is skipped as a consolidated
\* result.
C21_ReminderOrderUpdatesUnlessFrozen ==
    \A e \in Logged :
        (/\ Compared(e)
         /\ StartDiff(e) = 0
         /\ e.ev[1].summary = e.body[1].summary
         /\ e.ev[1].description = e.body[1].description
         /\ e.ev[1].location = e.body[1].location
         /\ e.ev[1].reminders # e.body[1].reminders
         /\ e.ev[1].reminders = Reverse(e.body[1].reminders)) =>
            e.outcome = "update" /\ ~e.notify

\* an event that differed from the candidate in the order of its four
\* overrides alone was updated, and no line was queued
C21_Witness ==
    \E e \in Logged :
        /\ Compared(e) /\ StartDiff(e) = 0
        /\ e.ev[1].summary = e.body[1].summary
        /\ e.ev[1].description = e.body[1].description
        /\ e.ev[1].location = e.body[1].location
        /\ Len(e.body[1].reminders) = 4
        /\ e.ev[1].reminders = Reverse(e.body[1].reminders)
        /\ e.outcome = "update" /\ ~e.notify /\ e.result = "ok"
        /\ telegram_msgs = <<>>

\* C22: the line queued for an update that was notified because the start
\* moved by more than 60 s shows the hour the event had before, as in
\* "time: 20:00 -> 20:05".
C22_ChangeDescriptions ==
    \A e \in Logged :
        (/\ e.outcome = "update" /\ e.notify /\ e.result = "ok"
         /\ StartDiff(e) > TimeTolerance) =>
            \E i \in 1..Len(telegram_msgs) :
                /\ telegram_msgs[i].title = e.body[1].summary
                /\ telegram_msgs[i].suffix.hora
                       = <<(LocalTime(parse_google_iso(e.ev[1].start)) % SecondsPerDay) \div 3600,
                           (LocalTime(parse_google_iso(e.ev[1].start)) % 3600) \div 60>>

\* C23: an update_db call for a team whose entry already holds the stadium
\* given leaves that entry (stadium, location, aliases, last_updated) as it was.
C23_NoChurn ==
    (/\ lastCall.op = "update"
     /\ lastCall.team_name \in Keys(lastCall.db)
     /\ lastCall.db[IndexOf(lastCall.db, lastCall.team_name)].stadium = lastCall.stadium) =>
        /\ lastCall.team_name \in Keys(STADIUM_DB)
        /\ STADIUM_DB[IndexOf(STADIUM_DB, lastCall.team_name)]
               = lastCall.db[IndexOf(lastCall.db, lastCall.team_name)]

\* C24: a name that is no stored key and that is, once normalized, an alias of
\* some entry resolves to the first such entry, whatever the other keys are
\* like.
C24_AliasBeforeApproximate ==
    lastCall.op = "lookup" =>
        \A i \in 1..Len(lastCall.db) :
            (/\ lastCall.team_name \notin Keys(lastCall.db)
             /\ \E a \in 1..Len(lastCall.db[i].aliases) :
                    normalize_team_key(lastCall.db[i].aliases[a]) = normalize_team_key(lastCall.team_name)
             /\ \A j \in 1..(i - 1) : \A a \in 1..Len(lastCall.db[j].aliases) :
                    normalize_team_key(lastCall.db[j].aliases[a]) # normalize_team_key(lastCall.team_name)) =>
                lastCall.result = <<lastCall.db[i].stadium, lastCall.db[i].location>>

\* C25: a list whose items are all ticket offers gives (None, None); any
\* other list gives the label of the first kept channel of the first tier
\* that is not empty (La1 for La 1, Abierto for the other free ones, DAZN,
\* M+ for Movistar, TV for the rest) and a full string; the list DAZN 1,
\* Hellotickets (comprar), Movistar Liga de Campeones gives DAZN and
\* "DAZN 1, Movistar Liga de Campeones".
C25_ResultShape ==
    (lastCall.op = "parse_tv" /\ lastCall.ul # NoUl) =>
        /\ (\A i \in 1..Len(lastCall.ul) :
                Contains(lastCall.ul[i], <<"H","e","l","l","o","t","i","c","k","e","t","s">>)) =>
               lastCall.result = <<None, None>>
        /\ \A i \in 1..Len(KeptChannels(lastCall.ul)) :
               (\A j \in 1..Len(KeptChannels(lastCall.ul)) :
                    \/ Bucket(KeptChannels(lastCall.ul)[i]) < Bucket(KeptChannels(lastCall.ul)[j])
                    \/ Bucket(KeptChannels(lastCall.ul)[i]) = Bucket(KeptChannels(lastCall.ul)[j]) /\ i <= j) =>
                   /\ lastCall.result[2] # None /\ lastCall.result[2] # <<>>
                   /\ lastCall.result[1]
                        = (IF Contains(KeptChannels(lastCall.ul)[i], <<"L","a"," ","1">>) THEN <<"L","a","1">>
                           ELSE IF Contains(Upper(KeptChannels(lastCall.ul)[i]), <<"G","O","L">>)
                           THEN <<"A","b","i","e","r","t","o">>
                           ELSE IF Contains(KeptChannels(lastCall.ul)[i], <<"D","A","Z","N">>) THEN <<"D","A","Z","N">>
                           ELSE IF \/ Contains(KeptChannels(lastCall.ul)[i], <<"M","+">>)
                                   \/ Contains(KeptChannels(lastCall.ul)[i], <<"M","o","v","i","s","t","a","r">>)
                           THEN <<"M","+">>
                           ELSE <<"T","V">>)
        /\ lastCall.ul = << <<"D","A","Z","N"," ","1">>,
                            <<"H","e","l","l","o","t","i","c","k","e","t","s"," ","(","c","o","m","p","r","a","r",")">>,
                            <<"M","o","v","i","s","t","a","r"," ","L","i","g","a"," ","d","e"," ","C","a","m","p","e","o","n","e","s">> >> =>
               lastCall.result
                   = << <<"D","A","Z","N">>,
                        <<"D","A","Z","N"," ","1",","," ","M","o","v","i","s","t","a","r"," ","L","i","g","a"," ","d","e"," ","C","a","m","p","e","o","n","e","s">> >>

\* the list DAZN 1, Hellotickets (comprar), Movistar Liga de Campeones has
\* been resolved, the ticket offer dropped
C25_Witness ==
    /\ lastCall.op = "parse_tv"
    /\ lastCall.ul # NoUl
    /\ Len(lastCall.ul) = 3
    /\ lastCall.ul[1] = <<"D","A","Z","N"," ","1">>
    /\ Contains(lastCall.ul[2], <<"H","e","l","l","o","t","i","c","k","e","t","s">>)
    /\ Contains(lastCall.ul[3], <<"M","o","v","i","s","t","a","r">>)
    /\ lastCall.result[1] = <<"D","A","Z","N">>
    /\ Len(SplitComma(lastCall.result[2])) = 2

\* C26: the record of an element is TBD exactly when the element's hastime
\* flag is not "1" or its kick-off is at 00:00 local time.
C26_TbdRule ==
    lastCall.op = "fetch_matches" =>
        \A i \in 1..Len(lastCall.result) : \A k \in 1..Len(lastCall.elems) :
            lastCall.elems[k].href = lastCall.result[i].link =>
                (lastCall.result[i].is_tbd
                    <=> \/ lastCall.elems[k].hastime # <<"1">>
                        \/ (LocalTime(lastCall.result[i].inicio) % SecondsPerDay) \div 60 = 0)

\* C27: the events made for one fixture (those whose description carries its
\* link) do not carry more ids than the fixtures page has elements with that
\* link: a fixture shown once never has events for two dates.
C27_RescheduleKeepsOneEvent ==
    \A u \in {<<"URL1">>, <<"URL2">>, <<"URL3">>, <<"URL4">>} :
        Cardinality({calendar[i].match_id : i \in {j \in 1..Len(calendar) : Contains(calendar[j].description, u)}})
            <= Cardinality({k \in 1..Len(upstream.elems) : upstream.elems[k].href = u})

\* C28: no "Nuevo" or "Actualizado" line is queued for a fixture whose insert
\* or update request was refused on every attempt.
C28_NotifiedOnlyIfWritten ==
    \A e \in Logged :
        (e.outcome \in {"insert", "update"} /\ e.result = "refused") =>
            \A i \in 1..Len(telegram_msgs) : telegram_msgs[i].title # e.body[1].summary

\* C29: execute_with_retry executes the request at least once and at most
\* RetryAttempts times; it hands back the first answer that is not a
\* rate-limit error (the response, or the error raised), every earlier answer
\* having been a rate-limit error, and None when all RetryAttempts answers were
\* rate-limit errors.
C29_BoundedRetry ==
    lastCall.op = "execute_with_retry" =>
        /\ lastCall.result.executed \in 1..5
        /\ \A k \in 1..(lastCall.result.executed - 1) : lastCall.request[k] = "ratelimit"
        /\ lastCall.result.result = "ok" <=> lastCall.request[lastCall.result.executed] = "ok"
        /\ lastCall.result.result = "raised" <=> lastCall.request[lastCall.result.executed] = "error"
        /\ lastCall.result.result = "none" <=>
               (lastCall.result.executed = 5 /\ lastCall.request[5] = "ratelimit")

\* five rate-limit errors in a row: None came back after five attempts,
\* although a sixth would have succeeded
C29_Witness ==
    /\ lastCall.op = "execute_with_retry"
    /\ \A k \in 1..5 : lastCall.request[k] = "ratelimit"
    /\ lastCall.request[6] = "ok"
    /\ lastCall.result = [result |-> "none", executed |-> 5]

\* C30: in a cycle the stadium is scanned for one fixture at most, the first
\* one past the filter that lies in the future and is not TBD, with three
\* get_stadium_info calls at most; a turn changes the registry only if it is
\* the scanned one and a call returned a stadium (the description shows it);
\* when three calls have raised, the registry is left alone and the location
\* is what the registry holds for the home team, or the placeholder.
C30_SingleBoundedScan ==
    /\ Cardinality({i \in 1..Len(lastRun) : lastRun[i].scanned}) <= 1
    /\ \A i \in 1..Len(lastRun) :
           /\ lastRun[i].scanned <=>
                  /\ lastRun[i].outcome # "filtered"
                  /\ lastRun[i].match.inicio > lastRun[i].now /\ ~lastRun[i].match.is_tbd
                  /\ \A j \in 1..(i - 1) :
                         \/ lastRun[j].outcome = "filtered"
                         \/ lastRun[j].match.inicio <= lastRun[j].now
                         \/ lastRun[j].match.is_tbd
           /\ lastRun[i].attempts \in (IF lastRun[i].scanned THEN 1..3 ELSE {0})
           /\ lastRun[i].db # lastRun[i].db0 =>
                  /\ lastRun[i].scanned
                  /\ Contains(lastRun[i].body[1].description, <<"ICON_STADIUM">>)
           /\ (lastRun[i].scanned /\ lastRun[i].fails = 3) =>
                  /\ lastRun[i].attempts = 3
                  /\ lastRun[i].db = lastRun[i].db0
                  /\ lastRun[i].body[1].location
                         = (IF Truthy(find_stadium_dynamic(lastRun[i].db0, lastRun[i].match.local)[2])
                            THEN find_stadium_dynamic(lastRun[i].db0, lastRun[i].match.local)[2]
                            ELSE lastRun[i].match.lugar)

\* two fixtures in the future with a time: the first was scanned, the second
\* call returned a stadium that went into the registry, and the second
\* fixture was not scanned
C30_Witness ==
    /\ Len(lastRun) = 2
    /\ \A i \in 1..2 : lastRun[i].outcome # "filtered" /\ lastRun[i].match.inicio > lastRun[i].now
                         /\ ~lastRun[i].match.is_tbd
    /\ lastRun[1].scanned /\ lastRun[1].attempts = 2 /\ lastRun[1].db # lastRun[1].db0
    /\ ~lastRun[2].scanned /\ lastRun[2].db = lastRun[2].db0

\* C31: for a finished fixture with a score whose existing event's title
\* holds that score, no request is issued and no "Actualizado" line is queued, whatever
\* its start, description, location and reminders.
C31_ConsolidatedFrozen ==
    \A e \in Logged :
        (/\ e.ev # <<>>
         /\ Contains(Lower(e.match.status), <<"f","i","n">>)
         /\ e.match.score # None /\ e.match.score # <<>>
         /\ Contains(e.ev[1].summary, e.match.score)) =>
            /\ e.outcome \notin {"insert", "update"} /\ e.result = "none" /\ ~e.notify
            /\ \A i \in 1..Len(telegram_msgs) :
                   telegram_msgs[i].kind = "Actualizado" => telegram_msgs[i].title # e.body[1].summary

\* the event of a finished fixture, its score in the title, starts five
\* minutes away from the kick-off now given, and was left alone
C31_Witness ==
    \E e \in Logged :
        /\ e.ev # <<>>
        /\ Contains(Lower(e.match.status), <<"f","i","n">>)
        /\ e.match.score = <<"2","-","1">>
        /\ Contains(e.ev[1].summary, <<"2","-","1">>)
        /\ StartDiff(e) = 300
        /\ e.result = "none" /\ ~e.notify
        /\ telegram_msgs = <<>>

\* C9: an update_db call leaves the alias list of every entry that was there
\* as a prefix of the list the entry has afterwards.
C9_AliasesAppendOnly ==
    \A i \in 1..Len(updLog) :
        \A a \in 1..Len(updLog[i].before) :
            \A b \in 1..Len(After(i)) :
                After(i)[b].key = updLog[i].before[a].key =>
                    IsPrefix(updLog[i].before[a].aliases, After(i)[b].aliases)

\* C10: update_db("Real Valladolid CF", s, l) on the empty registry followed
\* by one or more update_db("Valladolid CF", s, l) leaves one entry, with
\* "Valladolid CF" once among its aliases.
C10_AliasLearned ==
    (/\ Len(updLog) >= 2
     /\ updLog[1].before = <<>>
     /\ updLog[1].team_name = RealValladolidCF
     /\ ~Rejected(updLog[1].stadium)
     /\ \A i \in 2..Len(updLog) :
            /\ updLog[i].team_name = ValladolidCF
            /\ updLog[i].stadium = updLog[1].stadium
            /\ updLog[i].location = updLog[1].location) =>
        Len(STADIUM_DB) = 1 /\ Count(STADIUM_DB[1].aliases, ValladolidCF) = 1

============================================================================
